---- MODULE Spec2Model ----
(***************************************************************************)
(* Partial parsing (core/dbt/parser/partial.py) and static macro-call      *)
(* extraction (core/dbt/clients/jinja_static.py).                          *)
(*                                                                         *)
(* A saved manifest is compared with freshly read files; PartialParsing    *)
(* patches the saved manifest in place and builds project_parser_files.    *)
(* Python exceptions are modelled by the field err of the run state: the   *)
(* first statement that raises sets it and every later statement of the    *)
(* call is skipped, the mutations made before it stay.                     *)
(*                                                                         *)
(* partial.py lines 268-269 are an if statement that assigns in its test   *)
(* and has only a comment for a body; it is read as the comparison it was  *)
(* meant to be, with nothing to do.                                        *)
(***************************************************************************)
EXTENDS Integers, Sequences, FiniteSets, TLC

\* ------------------------------------------------------------- bounds
MaxEdits == 2      \* file-system changes between two builds
MaxTests == 2      \* schema tests declared on model m1
MaxCalls == 2      \* calls of get_parsing_files on one PartialParsing
MaxMerges == 4     \* calls of merge_patch on one schema file

\* ------------------------------------------------- dicts and lists
EmptyDict == [k \in {} |-> 0]

Put(d, k, v) == [x \in (DOMAIN d) \cup {k} |-> IF x = k THEN v ELSE d[x]]

Pop(d, k) == [x \in (DOMAIN d) \ {k} |-> d[x]]

Contains(seq, x) == \E i \in DOMAIN seq : seq[i] = x

\* list.remove(x): drops the first occurrence (the caller checks presence)
ListRemove(seq, x) ==
    LET i == CHOOSE j \in DOMAIN seq : seq[j] = x /\ \A k \in 1..(j-1) : seq[k] # x
    IN  [k \in 1..(Len(seq) - 1) |-> IF k < i THEN seq[k] ELSE seq[k + 1]]

Range(seq) == {seq[i] : i \in DOMAIN seq}

RECURSIVE Flatten(_)
Flatten(seqs) == IF seqs = <<>> THEN <<>> ELSE Head(seqs) \o Flatten(Tail(seqs))

\* all enumerations of a finite set as a list (iteration order of a Python set)
Orderings(S) ==
    {s \in [1..Cardinality(S) -> S] : \A i, j \in 1..Cardinality(S) : s[i] = s[j] => i = j}

\* ---------------------------------------------------- partial.py tables
mssat_files == {"Model", "Seed", "Snapshot", "Analysis", "Test"}

key_to_prefix ==
    [models |-> "model", seeds |-> "seed", snapshots |-> "snapshot", analyses |-> "analysis"]

parse_file_type_to_key ==
    [Model |-> "models", Seed |-> "seeds", Snapshot |-> "snapshots", Analysis |-> "analyses"]

\* dbt.contracts.files.parse_file_type_to_parser
parse_file_type_to_parser ==
    [Macro |-> "MacroParser", Model |-> "ModelParser", Snapshot |-> "SnapshotParser",
     Analysis |-> "AnalysisParser", Test |-> "DataTestParser", Seed |-> "SeedParser",
     Documentation |-> "DocumentationParser", Schema |-> "SchemaParser"]

mssa_keys == <<"models", "seeds", "snapshots", "analyses">>

\* -------------------------------------------------- the project's files
\* The files of the project under test: three models, an analysis, two macro
\* files (mac2 calls mac1), a docs file and two schema files.
ProjectName == "test"

FileType(f) ==
    CASE f \in {"m1.sql", "m2.sql", "m3.sql"} -> "Model"
      [] f = "a1.sql" -> "Analysis"
      [] f \in {"mac1.sql", "mac2.sql"} -> "Macro"
      [] f = "doc1.md" -> "Documentation"
      [] f \in {"schema.yml", "schema2.yml"} -> "Schema"

\* the name of the node, macro or doc block a file defines
EntityName(f) ==
    CASE f = "m1.sql" -> "m1" [] f = "m2.sql" -> "m2" [] f = "m3.sql" -> "m3"
      [] f = "a1.sql" -> "a1" [] f = "mac1.sql" -> "mac1" [] f = "mac2.sql" -> "mac2"
      [] f = "doc1.md" -> "doc1" [] OTHER -> ""

\* the macros a file's template calls (what jinja_static extracts from it)
MacroCalls(f) ==
    CASE f = "m1.sql" -> <<"mac1">>
      [] f = "m2.sql" -> <<"mac2">>
      [] f = "mac2.sql" -> <<"mac1">>
      [] OTHER -> <<>>

Idx == <<"1", "2", "3", "4", "5">>

\* a schema-file element: a dict with a 'name'; 'override' is a key of sources;
\* obj tells the dict object of a document from a copy of it
Elem(n, ver, nt, ntab, ov) ==
    [name |-> n, v |-> ver, tests |-> nt, tables |-> ntab, override |-> ov,
     obj |-> "document"]

\* dict.copy(): another object with the same items
Copy(element) == [element EXCEPT !.obj = "copy"]

\* the items of a dict, which == and != compare
Items(element) == [element EXCEPT !.obj = "document"]

\* schema.yml of the saved build, with nt tests on model m1; m2 is not patched;
\* ov: whether source src2 overrides a source of another package; the macros
\* entry mac3 names no macro of the project, so no macro patch is recorded for it
BaseDoc(nt, ov) ==
    [version |-> 2,
     models |-> <<Elem("m1", 1, nt, 0, FALSE)>>,
     analyses |-> <<Elem("a1", 1, 0, 0, FALSE)>>,
     sources |-> <<Elem("src1", 1, 0, 2, FALSE), Elem("src2", 1, 0, 1, ov)>>,
     macros |-> <<Elem("mac1", 1, 0, 0, FALSE), Elem("mac3", 1, 0, 0, FALSE)>>,
     exposures |-> <<Elem("e1", 1, 0, 0, FALSE), Elem("e2", 1, 0, 0, FALSE)>>]

\* schema2.yml: patches and tests model m3
Doc2 == [version |-> 2, models |-> <<Elem("m3", 1, 1, 0, FALSE)>>]

\* elements a developer may add to schema.yml
AddableElems ==
    {<<"models", Elem("m2", 1, 1, 0, FALSE)>>,
     <<"seeds", Elem("s1", 1, 0, 0, FALSE)>>,
     <<"sources", Elem("src3", 1, 0, 1, FALSE)>>,
     <<"sources", Elem("src4", 1, 0, 1, TRUE)>>,
     <<"macros", Elem("mac2", 1, 0, 0, FALSE)>>,
     <<"exposures", Elem("e3", 1, 0, 0, FALSE)>>}

SectionKeys == {"models", "seeds", "snapshots", "analyses", "sources", "macros", "exposures"}

\* a SourceFile / SchemaSourceFile as read_files makes it: nothing parsed yet
NewSourceFile(f, sum, doc) ==
    [file_id |-> f, parse_file_type |-> FileType(f), project_name |-> ProjectName,
     checksum |-> sum, contents |-> sum,
     nodes |-> <<>>, macros |-> <<>>, docs |-> <<>>,
     dfy |-> doc, node_patches |-> <<>>, macro_patches |-> <<>>, tests |-> <<>>,
     sources |-> <<>>, exposures |-> <<>>,
     pp_dict |-> EmptyDict, pp_test_index |-> EmptyDict]

\* ------------------------------------------- the full parser (external)
\* What a full parse of a set of files puts in the manifest: one node per
\* model/analysis file, patched by the schema file whose section names it; one
\* test node per declared test, depending on the tested node; one source node
\* per source table; one exposure per exposures entry; one macro per macro
\* file, depending on the macros its template calls.
DocElems(doc, key) == IF key \in DOMAIN doc THEN doc[key] ELSE <<>>

ElemNames(doc, key) == {DocElems(doc, key)[i].name : i \in DOMAIN DocElems(doc, key)}

NodeIdOfFile(f) ==
    <<key_to_prefix[parse_file_type_to_key[FileType(f)]], ProjectName, EntityName(f)>>

MacroId(n) == <<"macro", ProjectName, n>>

FilesOfType(F, types) == {f \in DOMAIN F : F[f].parse_file_type \in types}

\* node.patch_path: the schema file that patches the node, "" for None
PatchPathFor(F, f) ==
    LET key == parse_file_type_to_key[FileType(f)]
        cands == {s \in FilesOfType(F, {"Schema"}) : EntityName(f) \in ElemNames(F[s].dfy, key)}
    IN  IF cands = {} THEN "" ELSE CHOOSE s \in cands : TRUE

MacroDeps(F, f) ==
    SelectSeq([i \in DOMAIN MacroCalls(f) |-> MacroId(MacroCalls(f)[i])],
              LAMBDA id : \E g \in FilesOfType(F, {"Macro"}) : EntityName(g) = id[3])

\* the file (if any) of F that defines the node <<prefix, project, name>>
NodeExists(F, key, n) ==
    \E f \in FilesOfType(F, mssat_files) :
        parse_file_type_to_key[FileType(f)] = key /\ EntityName(f) = n

TestIdsOf(F, s) ==
    Flatten([k \in 1..3 |->
        LET key == mssa_keys[k]
            es == DocElems(F[s].dfy, key)
        IN  Flatten([i \in DOMAIN es |->
                IF NodeExists(F, key, es[i].name)
                THEN [j \in 1..es[i].tests |-> <<"test", ProjectName, es[i].name, Idx[j]>>]
                ELSE <<>>])])

NodePatchesOf(F, s) ==
    Flatten([k \in 1..4 |->
        LET key == mssa_keys[k]
            es == DocElems(F[s].dfy, key)
        IN  Flatten([i \in DOMAIN es |->
                IF NodeExists(F, key, es[i].name)
                THEN << <<key_to_prefix[key], ProjectName, es[i].name>> >>
                ELSE <<>>])])

MacroPatchesOf(F, s) ==
    LET es == DocElems(F[s].dfy, "macros")
    IN  Flatten([i \in DOMAIN es |->
            IF \E g \in FilesOfType(F, {"Macro"}) : EntityName(g) = es[i].name
            THEN <<MacroId(es[i].name)>> ELSE <<>>])

SourceIdsOf(F, s) ==
    LET es == DocElems(F[s].dfy, "sources")
    IN  Flatten([i \in DOMAIN es |->
            [j \in 1..es[i].tables |-> <<"source", ProjectName, es[i].name, Idx[j]>>]])

ExposureIdsOf(F, s) ==
    LET es == DocElems(F[s].dfy, "exposures")
    IN  [i \in DOMAIN es |-> <<"exposure", ProjectName, es[i].name>>]

ParsedFile(F, f) ==
    LET t == F[f].parse_file_type
        raw == NewSourceFile(f, F[f].checksum, F[f].dfy)
    IN  CASE t \in mssat_files -> [raw EXCEPT !.nodes = <<NodeIdOfFile(f)>>]
          [] t = "Macro" -> [raw EXCEPT !.macros = <<MacroId(EntityName(f))>>]
          [] t = "Documentation" -> [raw EXCEPT !.docs = << <<ProjectName, EntityName(f)>> >>]
          [] t = "Schema" ->
                [raw EXCEPT !.node_patches = NodePatchesOf(F, f),
                            !.macro_patches = MacroPatchesOf(F, f),
                            !.tests = TestIdsOf(F, f),
                            !.sources = SourceIdsOf(F, f),
                            !.exposures = ExposureIdsOf(F, f)]

ParsedNodes(F) ==
    LET own == {f \in FilesOfType(F, mssat_files) : TRUE}
        ids == {NodeIdOfFile(f) : f \in own}
                 \cup UNION {Range(TestIdsOf(F, s)) : s \in FilesOfType(F, {"Schema"})}
    IN  [id \in ids |->
            IF id[1] = "test"
            THEN [name |-> "not_null", file_id |-> CHOOSE s \in FilesOfType(F, {"Schema"}) :
                                                        Contains(TestIdsOf(F, s), id),
                  patch_path |-> "",
                  depends_on_nodes |-> << <<"model", ProjectName, id[3]>> >>,
                  depends_on_macros |-> <<>>]
            ELSE LET f == CHOOSE g \in own : NodeIdOfFile(g) = id
                 IN  [name |-> EntityName(f), file_id |-> f,
                      patch_path |-> PatchPathFor(F, f),
                      depends_on_nodes |-> <<>>,
                      depends_on_macros |-> MacroDeps(F, f)]]

ParsedMacros(F) ==
    [id \in {MacroId(EntityName(f)) : f \in FilesOfType(F, {"Macro"})} |->
        LET f == CHOOSE g \in FilesOfType(F, {"Macro"}) : MacroId(EntityName(g)) = id
        IN  [name |-> EntityName(f), file_id |-> f, depends_on_macros |-> MacroDeps(F, f)]]

ParsedDocs(F) ==
    [id \in {<<ProjectName, EntityName(f)>> : f \in FilesOfType(F, {"Documentation"})} |->
        [name |-> id[2], file_id |-> CHOOSE g \in FilesOfType(F, {"Documentation"}) :
                                          EntityName(g) = id[2]]]

ParsedSources(F) ==
    [id \in UNION {Range(SourceIdsOf(F, s)) : s \in FilesOfType(F, {"Schema"})} |->
        [source_name |-> id[3], name |-> id[4],
         file_id |-> CHOOSE s \in FilesOfType(F, {"Schema"}) : Contains(SourceIdsOf(F, s), id)]]

ParsedExposures(F) ==
    [id \in UNION {Range(ExposureIdsOf(F, s)) : s \in FilesOfType(F, {"Schema"})} |->
        [name |-> id[3],
         file_id |-> CHOOSE s \in FilesOfType(F, {"Schema"}) : Contains(ExposureIdsOf(F, s), id)]]

\* Manifest of a full parse of the files F
FullParse(F) ==
    [files |-> [f \in DOMAIN F |-> ParsedFile(F, f)],
     nodes |-> ParsedNodes(F),
     macros |-> ParsedMacros(F),
     docs |-> ParsedDocs(F),
     sources |-> ParsedSources(F),
     exposures |-> ParsedExposures(F)]

\* Manifest(): every map empty
EmptyManifest ==
    [files |-> EmptyDict, nodes |-> EmptyDict, macros |-> EmptyDict,
     docs |-> EmptyDict, sources |-> EmptyDict, exposures |-> EmptyDict]

\* the files of the saved build
BaseFiles(nt, ov) ==
    [f \in {"m1.sql", "m2.sql", "a1.sql", "mac1.sql", "mac2.sql", "doc1.md", "schema.yml"} |->
        NewSourceFile(f, 1, IF f = "schema.yml" THEN BaseDoc(nt, ov) ELSE EmptyDict)]

AddableFiles == {"m3.sql", "schema2.yml"}

\* ---------------------------------------------------------------- state
VARIABLES
    saved_manifest,        \* self.saved_manifest (saved_files is its files map)
    deleted_manifest,      \* self.deleted_manifest
    new_files,             \* self.new_files
    file_diff,             \* self.file_diff
    project_parser_files,  \* self.project_parser_files
    todo,                  \* the file ids each loop of get_parsing_files has still to visit
    pc,                    \* "edit", "built", "run", "done", "skipped", "error"
    err,                   \* the exception that ended the run, "ok" if none
    result,                \* what get_parsing_files returned
    edits,                 \* file-system changes made since the saved build
    calls,                 \* calls of get_parsing_files so far
    start_manifest,        \* the saved manifest as loaded (never written by the program)
    merged,                \* the <<key, patch>> arguments of the merge_patch calls so far
    handled,               \* the <<key, kind, name>> of the elements the loops of
                           \* handle_schema_file_changes have visited so far, in order
    template,              \* jinja_static: the parsed template, a list of expression trees
    func_calls,            \* jinja_static: the Call nodes the loop has still to visit
    ctx,                   \* jinja_static: the rendering context
    db_wrapper,            \* jinja_static: whether a database wrapper is supplied
    possible_macro_calls   \* jinja_static: the list statically_extract_macro_calls builds

\* the variables of jinja_static
jvars == <<template, func_calls, ctx, db_wrapper, possible_macro_calls>>

vars == <<saved_manifest, deleted_manifest, new_files, file_diff, project_parser_files,
          todo, pc, err, result, edits, calls, start_manifest, merged, handled, jvars>>

\* The state one call works on: c.elem is the local variable elem of
\* handle_schema_file_changes (<<>> while unbound), c.log the elements its
\* loops have visited.
Ctx(saved, deleted, ppf) ==
    [saved |-> saved, deleted |-> deleted, ppf |-> ppf, err |-> "ok", elem |-> <<>>,
     log |-> <<>>]

\* a loop of handle_schema_file_changes over the kind list (changed, deleted
\* or added) of section key comes to element
Visit(c, key, kind, element) == [c EXCEPT !.log = Append(@, <<key, kind, element.name>>)]

Raise(c, e) == [c EXCEPT !.err = e]

Ok(c) == c.err = "ok"

\* v bound to a name for the rest of an operator: F's parameter
With(v, F(_)) == F(v)

\* ------------------------------------------------------- PartialParsing
\* skip_parsing that also wants the unchanged bucket empty
skip_parsing_unchanged ==
    /\ file_diff.deleted = {}
    /\ file_diff.added = {}
    /\ file_diff.changed = {}
    /\ file_diff.changed_schema_files = {}
    /\ file_diff.deleted_schema_files = {}
    /\ file_diff.unchanged = {}

\* skip_parsing that forgets the deleted schema files
skip_parsing_four ==
    /\ file_diff.deleted = {}
    /\ file_diff.added = {}
    /\ file_diff.changed = {}
    /\ file_diff.changed_schema_files = {}

skip_parsing ==
    /\ file_diff.deleted = {}
    /\ file_diff.added = {}
    /\ file_diff.changed = {}
    /\ file_diff.changed_schema_files = {}
    /\ file_diff.deleted_schema_files = {}

\* build_file_diff without the split of the deleted files by kind
build_file_diff_nosplit(saved_files, new) ==
    LET common == (DOMAIN saved_files) \cap (DOMAIN new)
        differ == {f \in common : saved_files[f].checksum # new[f].checksum}
    IN  [deleted |-> (DOMAIN saved_files) \ (DOMAIN new),
         deleted_schema_files |-> {},
         added |-> (DOMAIN new) \ (DOMAIN saved_files),
         changed |-> {f \in differ : saved_files[f].parse_file_type # "Schema"},
         changed_schema_files |-> {f \in differ : saved_files[f].parse_file_type = "Schema"},
         unchanged |-> common \ differ]

\* build_file_diff. Every Schema-kind file of a saved manifest built by the
\* parsers is a SchemaSourceFile, so the check of lines 85-86 passes.
build_file_diff(saved_files, new) ==
    LET saved_file_ids == DOMAIN saved_files
        new_file_ids == DOMAIN new
        deleted_all_files == saved_file_ids \ new_file_ids
        added == new_file_ids \ saved_file_ids
        common == saved_file_ids \cap new_file_ids
        differ == {f \in common : saved_files[f].checksum # new[f].checksum}
    IN  [deleted |-> {f \in deleted_all_files : saved_files[f].parse_file_type # "Schema"},
         deleted_schema_files |->
             {f \in deleted_all_files : saved_files[f].parse_file_type = "Schema"},
         added |-> added,
         changed |-> {f \in differ : saved_files[f].parse_file_type # "Schema"},
         changed_schema_files |-> {f \in differ : saved_files[f].parse_file_type = "Schema"},
         unchanged |-> common \ differ]

\* add_to_pp_files without the test of the deleted bucket
add_to_pp_files_noguard(c, source_file) ==
    IF ~Ok(c) THEN c ELSE
    LET file_id == source_file.file_id
        parser_name == parse_file_type_to_parser[source_file.parse_file_type]
        project_name == source_file.project_name
    IN  With(IF project_name \in DOMAIN c.ppf THEN c.ppf
             ELSE Put(c.ppf, project_name, EmptyDict), LAMBDA p1 :
        With(IF parser_name \in DOMAIN p1[project_name] THEN p1
             ELSE [p1 EXCEPT ![project_name] = Put(@, parser_name, <<>>)], LAMBDA p2 :
            IF ~Contains(p2[project_name][parser_name], file_id)
            THEN [c EXCEPT !.ppf = [p2 EXCEPT ![project_name][parser_name] =
                                                  Append(@, file_id)]]
            ELSE [c EXCEPT !.ppf = p2]))

\* add_to_pp_files that appends without looking for the id in the list
add_to_pp_files_again(c, source_file) ==
    IF ~Ok(c) THEN c ELSE
    LET file_id == source_file.file_id
        parser_name == parse_file_type_to_parser[source_file.parse_file_type]
        project_name == source_file.project_name
    IN  With(IF project_name \in DOMAIN c.ppf THEN c.ppf
             ELSE Put(c.ppf, project_name, EmptyDict), LAMBDA p1 :
        With(IF parser_name \in DOMAIN p1[project_name] THEN p1
             ELSE [p1 EXCEPT ![project_name] = Put(@, parser_name, <<>>)], LAMBDA p2 :
            IF file_id \notin file_diff.deleted
            THEN [c EXCEPT !.ppf = [p2 EXCEPT ![project_name][parser_name] =
                                                  Append(@, file_id)]]
            ELSE [c EXCEPT !.ppf = p2]))

add_to_pp_files(c, source_file) ==
    IF ~Ok(c) THEN c ELSE
    LET file_id == source_file.file_id
        parser_name == parse_file_type_to_parser[source_file.parse_file_type]
        project_name == source_file.project_name
    IN  IF parser_name = "" \/ project_name = ""
        THEN Raise(c, "Exception: no parser or project")
        ELSE With(IF project_name \in DOMAIN c.ppf THEN c.ppf
                  ELSE Put(c.ppf, project_name, EmptyDict), LAMBDA p1 :
             With(IF parser_name \in DOMAIN p1[project_name] THEN p1
                  ELSE [p1 EXCEPT ![project_name] = Put(@, parser_name, <<>>)], LAMBDA p2 :
                IF ~Contains(p2[project_name][parser_name], file_id)
                   /\ file_id \notin file_diff.deleted
                THEN [c EXCEPT !.ppf = [p2 EXCEPT ![project_name][parser_name] =
                                                      Append(@, file_id)]]
                ELSE [c EXCEPT !.ppf = p2]))

\* merge_patch without the search for an element of the same name
merge_patch_nocheck(c, sf, key, patch) ==
    IF ~Ok(c) THEN c ELSE
    LET schema_file == c.saved.files[sf]
        pp0 == IF DOMAIN schema_file.pp_dict = {}
               THEN [version |-> schema_file.dfy["version"]]
               ELSE schema_file.pp_dict
    IN  [c EXCEPT !.saved.files[sf].pp_dict =
            IF key \notin DOMAIN pp0 THEN Put(pp0, key, <<patch>>)
            ELSE [pp0 EXCEPT ![key] = Append(@, patch)]]

merge_patch(c, sf, key, patch) ==
    IF ~Ok(c) THEN c ELSE
    LET schema_file == c.saved.files[sf]
        pp0 == IF DOMAIN schema_file.pp_dict = {}
               THEN [version |-> schema_file.dfy["version"]]
               ELSE schema_file.pp_dict
        pp1 == IF key \notin DOMAIN pp0 THEN Put(pp0, key, <<patch>>)
               ELSE IF \E i \in DOMAIN pp0[key] : pp0[key][i].name = patch.name
                    THEN pp0
                    ELSE [pp0 EXCEPT ![key] = Append(@, patch)]
    IN  [c EXCEPT !.saved.files[sf].pp_dict = pp1]

\* get_tests_for, lines 444-455: builds schema_file.pp_test_index when it is falsy
get_tests_for_index(c, sf) ==
    IF ~Ok(c) THEN c ELSE
    LET schema_file == c.saved.files[sf]
        tests == schema_file.tests
    IN  IF DOMAIN schema_file.pp_test_index # {} THEN c
        ELSE IF \E i \in DOMAIN tests : tests[i] \notin DOMAIN c.saved.nodes
        THEN Raise(c, "KeyError")
        ELSE IF \E i \in DOMAIN tests : c.saved.nodes[tests[i]].depends_on_nodes = <<>>
        THEN Raise(c, "IndexError")
        ELSE LET tested(t) == c.saved.nodes[t].depends_on_nodes[1]
                 elem_name(t) == tested(t)[Len(tested(t))]
                 names == {elem_name(tests[i]) : i \in DOMAIN tests}
             IN  [c EXCEPT !.saved.files[sf].pp_test_index =
                     [n \in names |-> SelectSeq(tests, LAMBDA t : elem_name(t) = n)]]

\* get_tests_for, lines 456-458: the lookup (after get_tests_for_index)
get_tests_for(c, sf, node_name) ==
    LET index == c.saved.files[sf].pp_test_index
    IN  IF node_name \in DOMAIN index THEN index[node_name] ELSE <<>>

\* remove_tests that moves the test nodes and leaves the file's tests list alone
RECURSIVE remove_tests_keeplist(_, _, _)
remove_tests_keeplist(c, sf, tests) ==
    IF ~Ok(c) \/ tests = <<>> THEN c ELSE
    LET test_unique_id == Head(tests)
    IN  IF test_unique_id \notin DOMAIN c.saved.nodes THEN Raise(c, "KeyError")
        ELSE remove_tests_keeplist(
                [c EXCEPT !.saved.nodes = Pop(@, test_unique_id),
                          !.deleted.nodes = Put(@, test_unique_id,
                                                c.saved.nodes[test_unique_id])],
                sf, Tail(tests))

\* delete_schema_mssa_links, lines 436-439
RECURSIVE remove_tests(_, _, _)
remove_tests(c, sf, tests) ==
    IF ~Ok(c) \/ tests = <<>> THEN c ELSE
    LET test_unique_id == Head(tests)
    IN  IF test_unique_id \notin DOMAIN c.saved.nodes THEN Raise(c, "KeyError")
        ELSE With([c EXCEPT !.saved.nodes = Pop(@, test_unique_id),
                            !.deleted.nodes = Put(@, test_unique_id,
                                                  c.saved.nodes[test_unique_id])],
                  LAMBDA c1 :
                IF ~Contains(c1.saved.files[sf].tests, test_unique_id)
                THEN Raise(c1, "ValueError")
                ELSE remove_tests(
                        [c1 EXCEPT !.saved.files[sf].tests = ListRemove(@, test_unique_id)],
                        sf, Tail(tests)))

\* delete_schema_mssa_links, lines 415-430: elem_unique_id is <<>> for ''
remove_elem_node(c, sf, elem_unique_id) ==
    IF elem_unique_id = <<>> THEN c
    ELSE With(IF elem_unique_id \in DOMAIN c.saved.nodes
              THEN LET node == c.saved.nodes[elem_unique_id]
                       file_id == node.file_id
                   IN  With([c EXCEPT !.saved.nodes = Pop(@, elem_unique_id),
                                      !.deleted.nodes = Put(@, elem_unique_id, node)],
                            LAMBDA cm :
                          IF file_id \notin DOMAIN new_files THEN Raise(cm, "KeyError")
                          ELSE add_to_pp_files(
                                  [cm EXCEPT !.saved.files =
                                                 Put(@, file_id, new_files[file_id])],
                                  new_files[file_id]))
              ELSE c,
              LAMBDA ca :
            IF Ok(ca)
            THEN [ca EXCEPT !.saved.files[sf].node_patches = ListRemove(@, elem_unique_id)]
            ELSE ca)

delete_schema_mssa_links(c, sf, dict_key, elem) ==
    IF ~Ok(c) THEN c ELSE
    LET prefix == key_to_prefix[dict_key]
        np == c.saved.files[sf].node_patches
        hits == {i \in DOMAIN np : np[i][1] = prefix /\ np[i][Len(np[i])] = elem.name}
        elem_unique_id == IF hits = {} THEN <<>>
                          ELSE np[CHOOSE i \in hits : \A j \in hits : i <= j]
    IN  With(remove_elem_node(c, sf, elem_unique_id), LAMBDA c1 :
            IF Ok(c1) /\ dict_key \in {"models", "seeds", "snapshots"}
            THEN With(get_tests_for_index(c1, sf), LAMBDA c2 :
                    IF Ok(c2) THEN remove_tests(c2, sf, get_tests_for(c2, sf, elem.name))
                    ELSE c2)
            ELSE c1)

\* delete_node_in_saved, lines 209-214
reapply_patch(c, file_id, dict_key, elem_patch, unique_id) ==
    With(add_to_pp_files(
            merge_patch(delete_schema_mssa_links(c, file_id, dict_key, elem_patch),
                        file_id, dict_key, elem_patch),
            c.saved.files[file_id]),
         LAMBDA c4 :
            IF Ok(c4) /\ Contains(c4.saved.files[file_id].node_patches, unique_id)
            THEN [c4 EXCEPT !.saved.files[file_id].node_patches = ListRemove(@, unique_id)]
            ELSE c4)

\* delete_node_in_saved that moves the node and never looks at patch_path
delete_node_in_saved_nopatch(c, source_file, unique_id) ==
    IF ~Ok(c) THEN c ELSE
    IF unique_id \notin DOMAIN c.saved.nodes THEN Raise(c, "KeyError") ELSE
    [c EXCEPT !.saved.nodes = Pop(@, unique_id),
              !.deleted.nodes = Put(@, unique_id, c.saved.nodes[unique_id])]

delete_node_in_saved(c, source_file, unique_id) ==
    IF ~Ok(c) THEN c ELSE
    IF unique_id \notin DOMAIN c.saved.nodes THEN Raise(c, "KeyError") ELSE
    With(c.saved.nodes[unique_id], LAMBDA node :
    With([c EXCEPT !.saved.nodes = Pop(@, unique_id),
                   !.deleted.nodes = Put(@, unique_id, node)], LAMBDA c1 :
        LET file_id == node.patch_path
        IN  IF file_id = "" \/ file_id \in file_diff.deleted THEN c1
            ELSE IF file_id \notin DOMAIN c1.saved.files THEN Raise(c1, "KeyError")
            ELSE IF source_file.parse_file_type \notin DOMAIN parse_file_type_to_key
            THEN Raise(c1, "KeyError")
            ELSE LET schema_file == c1.saved.files[file_id]
                     dict_key == parse_file_type_to_key[source_file.parse_file_type]
                 IN  IF dict_key \notin DOMAIN schema_file.dfy THEN Raise(c1, "KeyError")
                     ELSE LET es == schema_file.dfy[dict_key]
                              hits == {i \in DOMAIN es : es[i].name = node.name}
                          IN  \* elem_patch is bound only by a matching element
                              IF hits = {} THEN Raise(c1, "UnboundLocalError")
                              ELSE reapply_patch(c1, file_id, dict_key,
                                       es[CHOOSE i \in hits : \A j \in hits : j <= i],
                                       unique_id)))

\* update_mssat_in_saved that leaves the old file in the saved files map
update_mssat_in_saved_norebind(c, new_source_file, old_source_file) ==
    IF ~Ok(c) THEN c ELSE
    IF old_source_file.nodes = <<>> THEN Raise(c, "IndexError") ELSE
    delete_node_in_saved(
        add_to_pp_files([c EXCEPT !.deleted.files =
                                      Put(@, new_source_file.file_id, old_source_file)],
                        new_source_file),
        new_source_file, old_source_file.nodes[1])

update_mssat_in_saved(c, new_source_file, old_source_file) ==
    IF ~Ok(c) THEN c ELSE
    IF old_source_file.nodes = <<>> THEN Raise(c, "IndexError") ELSE
    LET unique_id == old_source_file.nodes[1]
        file_id == new_source_file.file_id
    IN  delete_node_in_saved(
            add_to_pp_files([c EXCEPT !.deleted.files = Put(@, file_id, old_source_file),
                                      !.saved.files = Put(@, file_id, new_source_file)],
                            new_source_file),
            new_source_file, unique_id)

\* the files of a set of dependents, scheduled one after the other
RECURSIVE schedule_dep_files(_, _)
schedule_dep_files(c, dep_file_ids) ==
    IF ~Ok(c) \/ dep_file_ids = {} THEN c ELSE
    LET dep_file_id == CHOOSE f \in dep_file_ids : TRUE
    IN  schedule_dep_files(
            IF dep_file_id \in DOMAIN c.saved.files
            THEN add_to_pp_files(c, c.saved.files[dep_file_id]) ELSE c,
            dep_file_ids \ {dep_file_id})

\* the owners of the entries of a macros or nodes map that reference unique_id
\* (lines 480-483 and 490-493), macros being the macros map after the pop
dependent_files(entries, unique_id, macros) ==
    {entries[id].file_id : id \in
        {d \in DOMAIN entries :
            \E i \in DOMAIN entries[d].depends_on_macros :
                LET macro_unique_id == entries[d].depends_on_macros[i]
                IN  macro_unique_id = unique_id /\ macro_unique_id \in DOMAIN macros}}

RECURSIVE handle_macro_file_links_from(_, _)
handle_macro_file_links_from(c, macro_ids) ==
    IF ~Ok(c) \/ macro_ids = <<>> THEN c ELSE
    LET unique_id == Head(macro_ids)
    IN  IF unique_id \notin DOMAIN c.saved.macros THEN Raise(c, "KeyError")
        ELSE With([c EXCEPT !.deleted.macros = Put(@, unique_id, c.saved.macros[unique_id]),
                            !.saved.macros = Pop(@, unique_id)], LAMBDA c1 :
             With(schedule_dep_files(c1,
                      dependent_files(c1.saved.macros, unique_id, c1.saved.macros)),
                  LAMBDA c2 :
                handle_macro_file_links_from(
                    schedule_dep_files(c2,
                        dependent_files(c2.saved.nodes, unique_id, c2.saved.macros)),
                    Tail(macro_ids))))

handle_macro_file_links(c, source_file) ==
    handle_macro_file_links_from(c, source_file.macros)

update_macro_in_saved(c, new_source_file, old_source_file) ==
    With(handle_macro_file_links(c, old_source_file), LAMBDA c1 :
        IF ~Ok(c1) THEN c1
        ELSE add_to_pp_files(
                [c1 EXCEPT !.saved.files = Put(@, new_source_file.file_id, new_source_file)],
                new_source_file))

update_doc_in_saved(c, new_source_file, old_source_file) ==
    IF ~Ok(c) THEN c
    ELSE add_to_pp_files(
            [c EXCEPT !.saved.files = Put(@, new_source_file.file_id, new_source_file)],
            new_source_file)

\* delete_mssat_file: line 468 calls self.schedule_nodes_for_parsing, a method
\* PartialParsing does not define (AttributeError)
delete_mssat_file(c, source_file) ==
    IF ~Ok(c) THEN c ELSE
    IF source_file.nodes = <<>> THEN Raise(c, "Exception: no nodes") ELSE
    With(delete_node_in_saved(c, source_file, source_file.nodes[1]), LAMBDA c1 :
        IF Ok(c1) THEN Raise(c1, "AttributeError") ELSE c1)

\* self.deleted_manifest.files[file_id] = self.saved_files.pop(file_id)
pop_file(c, file_id) ==
    IF ~Ok(c) THEN c
    ELSE IF file_id \notin DOMAIN c.saved.files THEN Raise(c, "KeyError")
    ELSE [c EXCEPT !.deleted.files = Put(@, file_id, c.saved.files[file_id]),
                   !.saved.files = Pop(@, file_id)]

delete_macro_file(c, source_file) ==
    pop_file(handle_macro_file_links(c, source_file), source_file.file_id)

RECURSIVE delete_docs(_, _)
delete_docs(c, doc_ids) ==
    IF ~Ok(c) \/ doc_ids = <<>> THEN c ELSE
    LET unique_id == Head(doc_ids)
    IN  IF unique_id \notin DOMAIN c.saved.docs THEN Raise(c, "KeyError")
        ELSE delete_docs([c EXCEPT !.deleted.docs = Put(@, unique_id, c.saved.docs[unique_id]),
                                   !.saved.docs = Pop(@, unique_id)],
                         Tail(doc_ids))

delete_doc_file(c, source_file) ==
    pop_file(delete_docs(c, source_file.docs), source_file.file_id)

\* delete_schema_source: line 520 pops the source id from the exposures map
RECURSIVE delete_schema_source_from(_, _, _)
delete_schema_source_from(c, source_ids, source_name) ==
    IF ~Ok(c) \/ source_ids = <<>> THEN c ELSE
    LET unique_id == Head(source_ids)
    IN  IF unique_id \in DOMAIN c.saved.sources
           /\ c.saved.sources[unique_id].source_name = source_name
        THEN IF unique_id \notin DOMAIN c.saved.exposures THEN Raise(c, "KeyError")
             ELSE delete_schema_source_from(
                    [c EXCEPT !.deleted.sources = Put(@, unique_id, c.saved.exposures[unique_id]),
                              !.saved.exposures = Pop(@, unique_id)],
                    Tail(source_ids), source_name)
        ELSE delete_schema_source_from(c, Tail(source_ids), source_name)

delete_schema_source(c, sf, source_dict) ==
    IF ~Ok(c) THEN c
    ELSE delete_schema_source_from(c, c.saved.files[sf].sources, source_dict.name)

delete_schema_macro_patch(c, sf, macro) ==
    IF ~Ok(c) THEN c ELSE
    LET mp == c.saved.files[sf].macro_patches
        hits == {i \in DOMAIN mp : mp[i][Len(mp[i])] = macro.name}
    IN  \* macro_unique_id is bound only by a matching id
        IF hits = {} THEN Raise(c, "UnboundLocalError")
        ELSE With(mp[CHOOSE i \in hits : \A j \in hits : i <= j], LAMBDA macro_unique_id :
             With(IF macro_unique_id \in DOMAIN c.saved.macros
                  THEN LET m == c.saved.macros[macro_unique_id]
                       IN  With([c EXCEPT !.saved.macros = Pop(@, macro_unique_id),
                                          !.deleted.macros = Put(@, macro_unique_id, m)],
                                LAMBDA cm :
                              IF m.file_id \notin DOMAIN cm.saved.files
                              THEN Raise(cm, "KeyError")
                              ELSE add_to_pp_files(cm, cm.saved.files[m.file_id]))
                  ELSE c,
                  LAMBDA c1 :
                IF Ok(c1) /\ Contains(c1.saved.files[sf].macro_patches, macro_unique_id)
                THEN [c1 EXCEPT !.saved.files[sf].macro_patches =
                                    ListRemove(@, macro_unique_id)]
                ELSE c1))

\* delete_schema_exposure that pops the exposure and records it nowhere
RECURSIVE delete_schema_exposure_from_lost(_, _, _)
delete_schema_exposure_from_lost(c, exposure_ids, exposure_name) ==
    IF ~Ok(c) \/ exposure_ids = <<>> THEN c ELSE
    LET unique_id == Head(exposure_ids)
    IN  IF unique_id \notin DOMAIN c.saved.exposures THEN Raise(c, "KeyError")
        ELSE delete_schema_exposure_from_lost(
                IF c.saved.exposures[unique_id].name = exposure_name
                THEN [c EXCEPT !.saved.exposures = Pop(@, unique_id)]
                ELSE c,
                Tail(exposure_ids), exposure_name)

\* delete_schema_exposure: line 545 reads the exposure before line 546 checks it
RECURSIVE delete_schema_exposure_from(_, _, _)
delete_schema_exposure_from(c, exposure_ids, exposure_name) ==
    IF ~Ok(c) \/ exposure_ids = <<>> THEN c ELSE
    LET unique_id == Head(exposure_ids)
    IN  IF unique_id \notin DOMAIN c.saved.exposures THEN Raise(c, "KeyError")
        ELSE delete_schema_exposure_from(
                IF c.saved.exposures[unique_id].name = exposure_name
                THEN [c EXCEPT !.deleted.exposures =
                                   Put(@, unique_id, c.saved.exposures[unique_id]),
                               !.saved.exposures = Pop(@, unique_id)]
                ELSE c,
                Tail(exposure_ids), exposure_name)

delete_schema_exposure(c, sf, exposure_dict) ==
    IF ~Ok(c) THEN c
    ELSE delete_schema_exposure_from(c, c.saved.files[sf].exposures, exposure_dict.name)

\* ------------------------------------------------- schema-file sections
\* name -> element, as the two loops of lines 338-341 build it (the last wins)
elements_by_name(elements) ==
    [n \in {elements[i].name : i \in DOMAIN elements} |->
        elements[CHOOSE i \in DOMAIN elements :
                    elements[i].name = n /\ \A j \in DOMAIN elements :
                                                elements[j].name = n => j <= i]]

\* the names get_diff_for reports for a key: deleted, added or changed
DiffNames(key, saved_yaml_dict, new_yaml_dict) ==
    LET s == elements_by_name(DocElems(saved_yaml_dict, key))
        n == elements_by_name(DocElems(new_yaml_dict, key))
    IN  {x \in (DOMAIN s) \cup (DOMAIN n) :
            x \notin DOMAIN s \/ x \notin DOMAIN n \/ Items(s[x]) # Items(n[x])}

\* get_diff_for without the comparison of line 351: every element whose name
\* is in both documents is reported changed
get_diff_for_nocompare(key, saved_yaml_dict, new_yaml_dict, order) ==
    LET saved_elements == DocElems(saved_yaml_dict, key)
        new_elements == DocElems(new_yaml_dict, key)
        saved_element_names == DOMAIN elements_by_name(saved_elements)
        new_element_names == DOMAIN elements_by_name(new_elements)
        copies(elements) == [i \in DOMAIN elements |-> Copy(elements[i])]
    IN  [deleted |-> copies(SelectSeq(saved_elements,
                                      LAMBDA e : e.name \notin new_element_names)),
         added |-> copies(SelectSeq(new_elements,
                                    LAMBDA e : e.name \notin saved_element_names)),
         changed |-> copies(SelectSeq(new_elements,
                                      LAMBDA e : e.name \in saved_element_names))]

\* get_diff_for that returns the saved document's element for a changed name
get_diff_for_savedelem(key, saved_yaml_dict, new_yaml_dict, order) ==
    LET saved_elements_by_name == elements_by_name(DocElems(saved_yaml_dict, key))
        new_elements_by_name == elements_by_name(DocElems(new_yaml_dict, key))
        saved_element_names == DOMAIN saved_elements_by_name
        new_element_names == DOMAIN new_elements_by_name
        common == saved_element_names \cap new_element_names
        changed == {x \in common : Items(saved_elements_by_name[x])
                                        # Items(new_elements_by_name[x])}
        pick(names, by_name) ==
            LET ns == SelectSeq(order, LAMBDA x : x \in names)
            IN  [i \in DOMAIN ns |-> Copy(by_name[ns[i]])]
    IN  [deleted |-> pick(saved_element_names \ new_element_names, saved_elements_by_name),
         added |-> pick(new_element_names \ saved_element_names, new_elements_by_name),
         changed |-> pick(changed, saved_elements_by_name)]

\* get_diff_for that returns the documents' own elements instead of copies
get_diff_for_nocopy(key, saved_yaml_dict, new_yaml_dict, order) ==
    LET saved_elements_by_name == elements_by_name(DocElems(saved_yaml_dict, key))
        new_elements_by_name == elements_by_name(DocElems(new_yaml_dict, key))
        saved_element_names == DOMAIN saved_elements_by_name
        new_element_names == DOMAIN new_elements_by_name
        common == saved_element_names \cap new_element_names
        changed == {x \in common : Items(saved_elements_by_name[x])
                                        # Items(new_elements_by_name[x])}
        pick(names, by_name) ==
            LET ns == SelectSeq(order, LAMBDA x : x \in names)
            IN  [i \in DOMAIN ns |-> by_name[ns[i]]]
    IN  [deleted |-> pick(saved_element_names \ new_element_names, saved_elements_by_name),
         added |-> pick(new_element_names \ saved_element_names, new_elements_by_name),
         changed |-> pick(changed, new_elements_by_name)]

\* get_diff_for; order lists DiffNames in the order the Python sets iterate
get_diff_for(key, saved_yaml_dict, new_yaml_dict, order) ==
    IF key \in DOMAIN saved_yaml_dict \/ key \in DOMAIN new_yaml_dict
    THEN LET saved_elements == IF key \in DOMAIN saved_yaml_dict
                               THEN saved_yaml_dict[key] ELSE <<>>
             new_elements == IF key \in DOMAIN new_yaml_dict THEN new_yaml_dict[key] ELSE <<>>
             saved_elements_by_name == elements_by_name(saved_elements)
             new_elements_by_name == elements_by_name(new_elements)
             saved_element_names == DOMAIN saved_elements_by_name
             new_element_names == DOMAIN new_elements_by_name
             deleted == saved_element_names \ new_element_names
             added == new_element_names \ saved_element_names
             common == saved_element_names \cap new_element_names
             changed == {x \in common : Items(saved_elements_by_name[x])
                                             # Items(new_elements_by_name[x])}
             pick(names, by_name) ==
                 LET ns == SelectSeq(order, LAMBDA x : x \in names)
                 IN  [i \in DOMAIN ns |-> Copy(by_name[ns[i]])]
         IN  [deleted |-> pick(deleted, saved_elements_by_name),
              added |-> pick(added, new_elements_by_name),
              changed |-> pick(changed, new_elements_by_name)]
    ELSE [deleted |-> <<>>, added |-> <<>>, changed |-> <<>>]

\* mssa_changed that merges a changed element without unlinking it
RECURSIVE mssa_changed_nounlink(_, _, _, _)
mssa_changed_nounlink(c, sf, dict_key, elems) ==
    IF ~Ok(c) \/ elems = <<>> THEN c
    ELSE mssa_changed_nounlink(
            merge_patch(
                [Visit(c, dict_key, "changed", Head(elems)) EXCEPT !.elem = <<Head(elems)>>],
                sf, dict_key, Head(elems)),
            sf, dict_key, Tail(elems))

\* lines 265-267; lines 268-269 are an unfinished if with a TODO for a body and
\* change no state
RECURSIVE mssa_changed(_, _, _, _)
mssa_changed(c, sf, dict_key, elems) ==
    IF ~Ok(c) \/ elems = <<>> THEN c
    ELSE mssa_changed(
            merge_patch(
                delete_schema_mssa_links(
                    [Visit(c, dict_key, "changed", Head(elems)) EXCEPT !.elem = <<Head(elems)>>],
                    sf, dict_key, Head(elems)),
                sf, dict_key, Head(elems)),
            sf, dict_key, Tail(elems))

\* lines 271-272
RECURSIVE mssa_deleted(_, _, _, _)
mssa_deleted(c, sf, dict_key, elems) ==
    IF ~Ok(c) \/ elems = <<>> THEN c ELSE
    LET elem == Head(elems)
    IN  mssa_deleted(
            delete_schema_mssa_links(
                [Visit(c, dict_key, "deleted", elem) EXCEPT !.elem = <<elem>>],
                sf, dict_key, elem),
            sf, dict_key, Tail(elems))

\* lines 275-276, 310-311
RECURSIVE elems_added(_, _, _, _)
elems_added(c, sf, dict_key, elems) ==
    IF ~Ok(c) \/ elems = <<>> THEN c ELSE
    LET elem == Head(elems)
    IN  elems_added(
            merge_patch([Visit(c, dict_key, "added", elem) EXCEPT !.elem = <<elem>>],
                        sf, dict_key, elem),
            sf, dict_key, Tail(elems))

\* mssa_section that takes the added elements before the changed ones
mssa_section_addedfirst(c, sf, dict_key, key_diff) ==
    mssa_deleted(
        mssa_changed(elems_added(c, sf, dict_key, key_diff.added),
                     sf, dict_key, key_diff.changed),
        sf, dict_key, key_diff.deleted)

\* one key of the loop of line 262
mssa_section(c, sf, dict_key, key_diff) ==
    elems_added(
        mssa_deleted(mssa_changed(c, sf, dict_key, key_diff.changed),
                     sf, dict_key, key_diff.deleted),
        sf, dict_key, key_diff.added)

\* lines 262-276, from the k-th of the four keys on
RECURSIVE mssa_sections(_, _, _, _, _, _)
mssa_sections(c, sf, saved_yaml_dict, new_yaml_dict, ord, k) ==
    IF ~Ok(c) \/ k > Len(mssa_keys) THEN c
    ELSE mssa_sections(
            mssa_section(c, sf, mssa_keys[k],
                get_diff_for(mssa_keys[k], saved_yaml_dict, new_yaml_dict, ord[mssa_keys[k]])),
            sf, saved_yaml_dict, new_yaml_dict, ord, k + 1)

\* lines 281-286
RECURSIVE sources_changed(_, _, _)
sources_changed(c, sf, srcs) ==
    IF ~Ok(c) \/ srcs = <<>> THEN c ELSE
    LET source == Head(srcs)
        cv == Visit(c, "sources", "changed", source)
    IN  IF source.override THEN Raise(cv, "Exception: source override")
        ELSE sources_changed(
                merge_patch(delete_schema_source(cv, sf, source), sf, "sources", source),
                sf, Tail(srcs))

\* lines 288-292
RECURSIVE sources_deleted(_, _, _)
sources_deleted(c, sf, srcs) ==
    IF ~Ok(c) \/ srcs = <<>> THEN c ELSE
    LET source == Head(srcs)
        cv == Visit(c, "sources", "deleted", source)
    IN  IF source.override THEN Raise(cv, "Exception: source override")
        ELSE sources_deleted(delete_schema_source(cv, sf, source), sf, Tail(srcs))

\* lines 294-298
RECURSIVE sources_added(_, _, _)
sources_added(c, sf, srcs) ==
    IF ~Ok(c) \/ srcs = <<>> THEN c ELSE
    LET source == Head(srcs)
        cv == Visit(c, "sources", "added", source)
    IN  IF source.override THEN Raise(cv, "Exception: source override")
        ELSE sources_added(merge_patch(cv, sf, "sources", source), sf, Tail(srcs))

\* lines 303-305: line 305 merges elem, the variable of the loops above
RECURSIVE macros_changed(_, _, _)
macros_changed(c, sf, ms) ==
    IF ~Ok(c) \/ ms = <<>> THEN c
    ELSE With(delete_schema_macro_patch(Visit(c, "macros", "changed", Head(ms)), sf, Head(ms)),
              LAMBDA c1 :
            IF ~Ok(c1) THEN c1
            ELSE IF c1.elem = <<>> THEN Raise(c1, "UnboundLocalError")
            ELSE macros_changed(merge_patch(c1, sf, "macros", c1.elem[1]), sf, Tail(ms)))

\* lines 307-308
RECURSIVE macros_deleted(_, _, _)
macros_deleted(c, sf, ms) ==
    IF ~Ok(c) \/ ms = <<>> THEN c
    ELSE macros_deleted(
            delete_schema_macro_patch(Visit(c, "macros", "deleted", Head(ms)), sf, Head(ms)),
            sf, Tail(ms))

\* lines 316-318
RECURSIVE exposures_changed(_, _, _)
exposures_changed(c, sf, es) ==
    IF ~Ok(c) \/ es = <<>> THEN c ELSE
    LET exposure == Head(es)
    IN  exposures_changed(
            merge_patch(delete_schema_exposure(Visit(c, "exposures", "changed", exposure),
                                               sf, exposure),
                        sf, "exposures", exposure),
            sf, Tail(es))

\* lines 320-321
RECURSIVE exposures_deleted(_, _, _)
exposures_deleted(c, sf, es) ==
    IF ~Ok(c) \/ es = <<>> THEN c
    ELSE exposures_deleted(
            delete_schema_exposure(Visit(c, "exposures", "deleted", Head(es)), sf, Head(es)),
            sf, Tail(es))

\* lines 323-324
RECURSIVE exposures_added(_, _, _)
exposures_added(c, sf, es) ==
    IF ~Ok(c) \/ es = <<>> THEN c
    ELSE exposures_added(
            merge_patch(Visit(c, "exposures", "added", Head(es)), sf, "exposures", Head(es)),
            sf, Tail(es))

\* lines 279-298
sources_section(c, sf, source_diff) ==
    sources_added(
        sources_deleted(sources_changed(c, sf, source_diff.changed), sf, source_diff.deleted),
        sf, source_diff.added)

\* lines 301-311
macros_section(c, sf, macro_diff) ==
    elems_added(
        macros_deleted(macros_changed(c, sf, macro_diff.changed), sf, macro_diff.deleted),
        sf, "macros", macro_diff.added)

\* lines 314-324
exposures_section(c, sf, exposure_diff) ==
    exposures_added(
        exposures_deleted(exposures_changed(c, sf, exposure_diff.changed),
                          sf, exposure_diff.deleted),
        sf, exposure_diff.added)

\* ord[key]: the order in which the names of the key's diff are visited
handle_schema_file_changes(c, sf, saved_yaml_dict, new_yaml_dict, ord) ==
    exposures_section(
        macros_section(
            sources_section(
                mssa_sections([c EXCEPT !.elem = <<>>], sf, saved_yaml_dict, new_yaml_dict,
                              ord, 1),
                sf, get_diff_for("sources", saved_yaml_dict, new_yaml_dict, ord["sources"])),
            sf, get_diff_for("macros", saved_yaml_dict, new_yaml_dict, ord["macros"])),
        sf, get_diff_for("exposures", saved_yaml_dict, new_yaml_dict, ord["exposures"]))

\* change_schema_file that binds the saved files map to the new file instead
\* of copying contents, checksum and document onto the saved one
change_schema_file_rebind(c, file_id, ord) ==
    With(handle_schema_file_changes(
            [c EXCEPT !.saved.files[file_id].pp_dict =
                          [version |-> c.saved.files[file_id].dfy["version"]]],
            file_id, c.saved.files[file_id].dfy, new_files[file_id].dfy, ord),
         LAMBDA c1 :
            IF ~Ok(c1) THEN c1
            ELSE add_to_pp_files([c1 EXCEPT !.saved.files[file_id] = new_files[file_id]],
                                 new_files[file_id]))

change_schema_file(c, file_id, ord) ==
    LET saved_schema_file == c.saved.files[file_id]
        new_schema_file == new_files[file_id]
        saved_yaml_dict == saved_schema_file.dfy
        new_yaml_dict == new_schema_file.dfy
    IN  With(handle_schema_file_changes(
                [c EXCEPT !.saved.files[file_id].pp_dict =
                              [version |-> saved_yaml_dict["version"]]],
                file_id, saved_yaml_dict, new_yaml_dict, ord),
             LAMBDA c1 :
            IF ~Ok(c1) THEN c1
            ELSE With([c1 EXCEPT !.saved.files[file_id].contents = new_schema_file.contents,
                                 !.saved.files[file_id].checksum = new_schema_file.checksum,
                                 !.saved.files[file_id].dfy = new_schema_file.dfy],
                      LAMBDA c2 : add_to_pp_files(c2, c2.saved.files[file_id])))

delete_schema_file(c, file_id, ord) ==
    pop_file(handle_schema_file_changes(c, file_id, c.saved.files[file_id].dfy, EmptyDict, ord),
             file_id)

\* add_to_saved that does not seed the pending patch of a schema file
add_to_saved_unseeded(c, file_id) ==
    add_to_pp_files([c EXCEPT !.saved.files = Put(@, file_id, new_files[file_id])],
                    new_files[file_id])

add_to_saved(c, file_id) ==
    LET source_file == IF new_files[file_id].parse_file_type = "Schema"
                       THEN [new_files[file_id] EXCEPT !.pp_dict = new_files[file_id].dfy]
                       ELSE new_files[file_id]
    IN  add_to_pp_files([c EXCEPT !.saved.files = Put(@, file_id, source_file)], source_file)

\* delete_from_saved, lines 145-154
delete_by_type(c, saved_source_file) ==
    LET t == saved_source_file.parse_file_type
    IN  CASE t \in mssat_files -> delete_mssat_file(c, saved_source_file)
          [] t = "Macro" -> delete_macro_file(c, saved_source_file)
          [] t = "Documentation" -> delete_doc_file(c, saved_source_file)
          [] OTHER -> c

delete_from_saved(c, file_id) ==
    pop_file(delete_by_type(c, c.saved.files[file_id]), file_id)

update_in_saved(c, file_id) ==
    LET new_source_file == new_files[file_id]
        old_source_file == c.saved.files[file_id]
        t == new_source_file.parse_file_type
    IN  CASE t \in mssat_files -> update_mssat_in_saved(c, new_source_file, old_source_file)
          [] t = "Macro" -> update_macro_in_saved(c, new_source_file, old_source_file)
          [] t = "Documentation" -> update_doc_in_saved(c, new_source_file, old_source_file)
          [] OTHER -> Raise(c, "Exception: invalid parse_file_type")

\* ------------------------------------------------------------- the build
NoDiff ==
    [deleted |-> {}, deleted_schema_files |-> {}, added |-> {}, changed |-> {},
     changed_schema_files |-> {}, unchanged |-> {}]

\* a saved manifest and the project's files as they were when it was built
Loaded(at, tests, overrides) ==
    \E nt \in tests, ov \in overrides :
        /\ saved_manifest = FullParse(BaseFiles(nt, ov))
        /\ start_manifest = FullParse(BaseFiles(nt, ov))
        /\ new_files = BaseFiles(nt, ov)
        /\ deleted_manifest = EmptyManifest
        /\ file_diff = NoDiff
        /\ project_parser_files = EmptyDict
        /\ todo = NoDiff
        /\ pc = at
        /\ err = "ok"
        /\ result = EmptyDict
        /\ edits = 0
        /\ calls = 0
        /\ merged = <<>>
        /\ handled = <<>>

\* no template is being analysed
NoTemplate ==
    /\ template = <<>>
    /\ func_calls = <<>>
    /\ ctx = [defined |-> {}, falsy |-> {}, vars |-> EmptyDict]
    /\ db_wrapper = FALSE
    /\ possible_macro_calls = <<>>

Init == Loaded("edit", 0..MaxTests, BOOLEAN) /\ NoTemplate

\* ---- what the developer does to the project between two builds
Untouched(f) ==
    /\ f \in DOMAIN new_files
    /\ f \in DOMAIN saved_manifest.files
    /\ new_files[f].checksum = saved_manifest.files[f].checksum

Edit(new) ==
    /\ pc = "edit"
    /\ edits < MaxEdits
    /\ new_files' = new
    /\ edits' = edits + 1
    /\ UNCHANGED <<saved_manifest, deleted_manifest, file_diff, project_parser_files, todo,
                   pc, err, result, calls, start_manifest, merged, handled, jvars>>

EditDeleteFile(f) ==
    /\ Untouched(f)
    /\ Edit(Pop(new_files, f))

EditChangeFile(f) ==
    /\ Untouched(f)
    /\ FileType(f) # "Schema"
    /\ Edit([new_files EXCEPT ![f].checksum = @ + 1, ![f].contents = @ + 1])

EditAddFile(f) ==
    /\ f \in AddableFiles \ DOMAIN new_files
    /\ Edit(Put(new_files, f, NewSourceFile(f, 1, IF f = "schema2.yml" THEN Doc2 ELSE EmptyDict)))

\* schema.yml rewritten with the document doc
Rewrite(doc) ==
    /\ "schema.yml" \in DOMAIN new_files
    /\ Edit([new_files EXCEPT !["schema.yml"].dfy = doc,
                              !["schema.yml"].checksum = 2,
                              !["schema.yml"].contents = 2])

\* a change that leaves the parsed document as it was (a comment, a blank line)
EditSchemaTouch ==
    /\ Untouched("schema.yml")
    /\ Rewrite(new_files["schema.yml"].dfy)

EditSchemaChangeElem(key, i) ==
    /\ "schema.yml" \in DOMAIN new_files
    /\ key \in DOMAIN new_files["schema.yml"].dfy
    /\ i \in DOMAIN new_files["schema.yml"].dfy[key]
    /\ new_files["schema.yml"].dfy[key][i].v = 1
    /\ Rewrite([new_files["schema.yml"].dfy EXCEPT ![key][i].v = 2])

EditSchemaDeleteElem(key, i) ==
    /\ "schema.yml" \in DOMAIN new_files
    /\ key \in DOMAIN new_files["schema.yml"].dfy
    /\ i \in DOMAIN new_files["schema.yml"].dfy[key]
    /\ LET doc == new_files["schema.yml"].dfy
           rest == [j \in 1..(Len(doc[key]) - 1) |->
                       IF j < i THEN doc[key][j] ELSE doc[key][j + 1]]
       IN  Rewrite(IF rest = <<>> THEN Pop(doc, key) ELSE [doc EXCEPT ![key] = rest])

EditSchemaAddElem(key, elem) ==
    /\ "schema.yml" \in DOMAIN new_files
    /\ <<key, elem>> \in AddableElems
    /\ elem.name \notin ElemNames(new_files["schema.yml"].dfy, key)
    /\ elem.name \notin ElemNames(saved_manifest.files["schema.yml"].dfy, key)
    /\ LET doc == new_files["schema.yml"].dfy
       IN  Rewrite(IF key \in DOMAIN doc THEN [doc EXCEPT ![key] = Append(@, elem)]
                   ELSE Put(doc, key, <<elem>>))

\* ---- PartialParsing(saved_manifest, new_files)
Construct ==
    /\ pc = "edit"
    /\ file_diff' = build_file_diff(saved_manifest.files, new_files)
    /\ todo' = build_file_diff(saved_manifest.files, new_files)
    /\ pc' = "built"
    /\ UNCHANGED <<saved_manifest, deleted_manifest, new_files, project_parser_files,
                   err, result, edits, calls, start_manifest, merged, handled, jvars>>

\* ---- get_parsing_files
GetParsingFilesSkip ==
    /\ pc \in {"built", "skipped"}
    /\ calls < MaxCalls
    /\ skip_parsing
    /\ result' = EmptyDict
    /\ pc' = "skipped"
    /\ calls' = calls + 1
    /\ UNCHANGED <<saved_manifest, deleted_manifest, new_files, file_diff,
                   project_parser_files, todo, err, edits, start_manifest, merged, handled, jvars>>

GetParsingFilesStart ==
    /\ pc = "built"
    /\ ~skip_parsing
    /\ pc' = "run"
    /\ calls' = calls + 1
    /\ UNCHANGED <<saved_manifest, deleted_manifest, new_files, file_diff,
                   project_parser_files, todo, err, result, edits, start_manifest, merged, handled, jvars>>

Current == Ctx(saved_manifest, deleted_manifest, project_parser_files)

\* one iteration of a loop of get_parsing_files has run and left c
Step(c, bucket, file_id) ==
    /\ saved_manifest' = c.saved
    /\ deleted_manifest' = c.deleted
    /\ project_parser_files' = c.ppf
    /\ err' = c.err
    /\ pc' = IF Ok(c) THEN "run" ELSE "error"
    /\ todo' = [todo EXCEPT ![bucket] = @ \ {file_id}]
    /\ handled' = handled \o c.log
    /\ UNCHANGED <<new_files, file_diff, result, edits, calls, start_manifest, merged, jvars>>

OrdOf(o1, o2, o3, o4, o5, o6, o7) ==
    [models |-> o1, seeds |-> o2, snapshots |-> o3, analyses |-> o4,
     sources |-> o5, macros |-> o6, exposures |-> o7]

AddToSaved(file_id) ==
    /\ pc = "run"
    /\ file_id \in todo.added
    /\ Step(add_to_saved(Current, file_id), "added", file_id)

ChangeSchemaFile(file_id) ==
    /\ pc = "run"
    /\ todo.added = {}
    /\ file_id \in todo.changed_schema_files
    /\ LET s == saved_manifest.files[file_id].dfy
           n == new_files[file_id].dfy
       IN  \E o1 \in Orderings(DiffNames("models", s, n)),
              o2 \in Orderings(DiffNames("seeds", s, n)),
              o3 \in Orderings(DiffNames("snapshots", s, n)),
              o4 \in Orderings(DiffNames("analyses", s, n)),
              o5 \in Orderings(DiffNames("sources", s, n)),
              o6 \in Orderings(DiffNames("macros", s, n)),
              o7 \in Orderings(DiffNames("exposures", s, n)) :
                Step(change_schema_file(Current, file_id, OrdOf(o1, o2, o3, o4, o5, o6, o7)),
                     "changed_schema_files", file_id)

DeleteSchemaFile(file_id) ==
    /\ pc = "run"
    /\ todo.added = {}
    /\ todo.changed_schema_files = {}
    /\ file_id \in todo.deleted_schema_files
    /\ LET s == saved_manifest.files[file_id].dfy
           n == EmptyDict
       IN  \E o1 \in Orderings(DiffNames("models", s, n)),
              o2 \in Orderings(DiffNames("seeds", s, n)),
              o3 \in Orderings(DiffNames("snapshots", s, n)),
              o4 \in Orderings(DiffNames("analyses", s, n)),
              o5 \in Orderings(DiffNames("sources", s, n)),
              o6 \in Orderings(DiffNames("macros", s, n)),
              o7 \in Orderings(DiffNames("exposures", s, n)) :
                Step(delete_schema_file(Current, file_id, OrdOf(o1, o2, o3, o4, o5, o6, o7)),
                     "deleted_schema_files", file_id)

DeleteFromSaved(file_id) ==
    /\ pc = "run"
    /\ todo.added = {}
    /\ todo.changed_schema_files = {}
    /\ todo.deleted_schema_files = {}
    /\ file_id \in todo.deleted
    /\ Step(delete_from_saved(Current, file_id), "deleted", file_id)

\* the loop over the changed files not waiting for the loops before it
UpdateInSaved_unordered(file_id) ==
    /\ pc = "run"
    /\ file_id \in todo.changed
    /\ Step(update_in_saved(Current, file_id), "changed", file_id)

UpdateInSaved(file_id) ==
    /\ pc = "run"
    /\ todo.added = {}
    /\ todo.changed_schema_files = {}
    /\ todo.deleted_schema_files = {}
    /\ todo.deleted = {}
    /\ file_id \in todo.changed
    /\ Step(update_in_saved(Current, file_id), "changed", file_id)

GetParsingFilesReturn ==
    /\ pc = "run"
    /\ todo.added = {}
    /\ todo.changed_schema_files = {}
    /\ todo.deleted_schema_files = {}
    /\ todo.deleted = {}
    /\ todo.changed = {}
    /\ result' = project_parser_files
    /\ pc' = "done"
    /\ UNCHANGED <<saved_manifest, deleted_manifest, new_files, file_diff,
                   project_parser_files, todo, err, edits, calls, start_manifest, merged, handled, jvars>>

AllFiles == {"m1.sql", "m2.sql", "m3.sql", "a1.sql", "mac1.sql", "mac2.sql", "doc1.md",
             "schema.yml", "schema2.yml"}

Next ==
    \/ \E f \in AllFiles : EditDeleteFile(f)
    \/ \E f \in AllFiles : EditChangeFile(f)
    \/ \E f \in AllFiles : EditAddFile(f)
    \/ EditSchemaTouch
    \/ \E key \in SectionKeys, i \in 1..2 : EditSchemaChangeElem(key, i)
    \/ \E key \in SectionKeys, i \in 1..2 : EditSchemaDeleteElem(key, i)
    \/ \E ke \in AddableElems : EditSchemaAddElem(ke[1], ke[2])
    \/ Construct
    \/ GetParsingFilesSkip
    \/ GetParsingFilesStart
    \/ \E f \in AllFiles : AddToSaved(f)
    \/ \E f \in AllFiles : ChangeSchemaFile(f)
    \/ \E f \in AllFiles : DeleteSchemaFile(f)
    \/ \E f \in AllFiles : DeleteFromSaved(f)
    \/ \E f \in AllFiles : UpdateInSaved(f)
    \/ GetParsingFilesReturn

Spec == Init /\ [][Next]_vars

\* ---- merge_patch called over and over on the saved schema file
MergeKeys == {"models", "sources"}

MergePatches == {Elem(n, v, 0, 0, FALSE) : n \in {"m1", "m2"}, v \in {1, 2}}

InitMerge == Loaded("merge", {1}, {TRUE}) /\ NoTemplate

MergePatch(key, patch) ==
    /\ pc = "merge"
    /\ Len(merged) < MaxMerges
    /\ saved_manifest' = merge_patch(Current, "schema.yml", key, patch).saved
    /\ merged' = Append(merged, <<key, patch>>)
    /\ UNCHANGED <<deleted_manifest, new_files, file_diff, project_parser_files, todo, pc,
                   err, result, edits, calls, start_manifest, handled, jvars>>

NextMerge == \E key \in MergeKeys, patch \in MergePatches : MergePatch(key, patch)

SpecMerge == InitMerge /\ [][NextMerge]_vars

\* ========================================================= jinja_static.py
\* A node of the jinja2 syntax tree. Every node carries every field; a field
\* its class does not have is empty. node, left and right hold zero or one
\* child; kwargs holds Keyword nodes as [key, value].
Blank(t) ==
    [type |-> t, name |-> "", attr |-> "", value |-> "", node |-> <<>>, args |-> <<>>,
     kwargs |-> <<>>, items |-> <<>>, left |-> <<>>, right |-> <<>>]

Name(n) == [Blank("Name") EXCEPT !.name = n]

Const(v) == [Blank("Const") EXCEPT !.value = v]

List(items) == [Blank("List") EXCEPT !.items = items]

Getattr(node, attr) == [Blank("Getattr") EXCEPT !.node = <<node>>, !.attr = attr]

Call(node, args, kwargs) ==
    [Blank("Call") EXCEPT !.node = <<node>>, !.args = args, !.kwargs = kwargs]

Add(left, right) == [Blank("Add") EXCEPT !.left = <<left>>, !.right = <<right>>]

Keyword(key, value) == [key |-> key, value |-> value]

\* hasattr(n, 'name'), hasattr(n, 'node'), hasattr(n, 'attr'), hasattr(n, 'value')
HasName(n) == n.type = "Name"

HasNode(n) == n.type \in {"Call", "Getattr"}

HasAttr(n) == n.type = "Getattr"

HasValue(n) == n.type = "Const"

\* the value of an unset Python name, as an f-string prints it
None == "None"

\* str.startswith('_get') and 'namespaces' in str, for the attribute names used
StartsWithGet(attr) == attr \in {"_get_utils_namespaces", "_get_packages"}

HasNamespaces(attr) == attr \in {"_get_utils_namespaces", "namespaces_of"}

\* Node.iter_child_nodes: the children in field order
ChildNodes(n) ==
    n.node \o n.args \o [i \in DOMAIN n.kwargs |-> n.kwargs[i].value] \o n.items
        \o n.left \o n.right

\* Node.find_all(Call) over a list of sibling nodes: each Call, then the
\* Calls below it, before the next sibling
RECURSIVE find_all_calls(_)
find_all_calls(nodes) ==
    IF nodes = <<>> THEN <<>>
    ELSE (IF Head(nodes).type = "Call" THEN <<Head(nodes)>> ELSE <<>>)
            \o find_all_calls(ChildNodes(Head(nodes)))
            \o find_all_calls(Tail(nodes))

\* the macros of the namespace the database wrapper searches
MacroNamespace ==
    {<<"dbt_utils", "default__current_timestamp">>, <<"local", "default__current_timestamp">>,
     <<"test", "default__current_timestamp">>}

\* db_wrapper.dispatch(macro_name, packages).macro: the first package of the
\* list (the root project when it is None, <<>> here) that has the default
\* implementation; <<>> when none has (dispatch raises)
dispatch(macro_name, packages) ==
    LET search == IF packages = <<>> THEN <<ProjectName>> ELSE packages
        found == {i \in DOMAIN search :
                     <<search[i], "default__" \o macro_name>> \in MacroNamespace}
    IN  IF found = {} THEN <<>>
        ELSE <<search[CHOOSE i \in found : \A j \in found : i <= j],
               "default__" \o macro_name>>

\* get_dispatch_list whose looked-up list replaces the default packages
get_dispatch_list_replace(c, var_name, default_packages) ==
    LET namespace_list == IF var_name \in DOMAIN c.vars THEN c.vars[var_name] ELSE <<>>
    IN  IF namespace_list # <<>> THEN namespace_list ELSE default_packages

\* get_dispatch_list that appends the default packages to its result
get_dispatch_list_twice(c, var_name, default_packages) ==
    LET namespace_list == IF var_name \in DOMAIN c.vars THEN c.vars[var_name] ELSE <<>>
    IN  (IF namespace_list # <<>> THEN namespace_list ELSE default_packages)
            \o default_packages

\* lines 181-189: ctx['var'](var_name) raises when the variable is not set
get_dispatch_list(c, var_name, default_packages) ==
    LET namespace_list == IF var_name \in DOMAIN c.vars
                          THEN c.vars[var_name] \o default_packages
                          ELSE <<>>
    IN  IF namespace_list # <<>> THEN namespace_list ELSE default_packages

\* the state of one statically_parse_adapter_dispatch call
Dispatch(func_name, names) ==
    [func_name |-> func_name, calls |-> names, packages_arg |-> <<>>,
     packages_arg_type |-> None, packages |-> <<>>, err |-> "ok"]

\* lines 93-96
dispatch_name(func_call) ==
    IF Len(func_call.args) > 0
    THEN IF HasValue(func_call.args[1])
         THEN Dispatch(func_call.args[1].value, <<func_call.args[1].value>>)
         ELSE Raise(Dispatch(None, <<>>), "AttributeError")
    ELSE Dispatch(None, <<>>)

\* lines 103-106
dispatch_positional(d, func_call) ==
    IF Ok(d) /\ Len(func_call.args) > 1
    THEN [d EXCEPT !.packages_arg = <<func_call.args[2]>>,
                   !.packages_arg_type = func_call.args[2].type]
    ELSE d

\* lines 109-121; the message of line 120 reads kwarg.value.value, which a
\* node that is no Const does not have
RECURSIVE dispatch_kwargs(_, _)
dispatch_kwargs(d, kwargs) ==
    IF ~Ok(d) \/ kwargs = <<>> THEN d ELSE
    LET kwarg == Head(kwargs)
    IN  dispatch_kwargs(
            IF kwarg.key = "packages"
            THEN [d EXCEPT !.packages_arg = <<kwarg.value>>,
                           !.packages_arg_type = kwarg.value.type]
            ELSE IF kwarg.key = "macro_name"
            THEN IF kwarg.value.type = "Const"
                 THEN [d EXCEPT !.func_name = kwarg.value.value,
                                !.calls = Append(@, kwarg.value.value)]
                 ELSE IF HasValue(kwarg.value)
                 THEN Raise(d, "CompilationException: macro_name")
                 ELSE Raise(d, "AttributeError")
            ELSE d,
            Tail(kwargs))

\* [item.value for item in items]
item_values(d, items) ==
    IF \A i \in DOMAIN items : HasValue(items[i])
    THEN [d EXCEPT !.packages = [i \in DOMAIN items |-> items[i].value]]
    ELSE Raise(d, "AttributeError")

\* lines 154-158: the variable name of the last var(...) call, "" for None
RECURSIVE namespace_var_of(_, _)
namespace_var_of(r, var_calls) ==
    IF r.err # "ok" \/ var_calls = <<>> THEN r ELSE
    LET var_call == Head(var_calls)
    IN  namespace_var_of(
            IF ~HasName(var_call.node[1]) THEN [r EXCEPT !.err = "AttributeError"]
            ELSE IF var_call.node[1].name # "var" THEN r
            ELSE IF var_call.args = <<>> THEN [r EXCEPT !.err = "IndexError"]
            ELSE IF ~HasValue(var_call.args[1]) THEN [r EXCEPT !.err = "AttributeError"]
            ELSE [r EXCEPT !.namespace_var = var_call.args[1].value],
            Tail(var_calls))

\* lines 123-165: the candidate packages
dispatch_packages(d, c) ==
    IF ~Ok(d) \/ d.packages_arg = <<>> THEN d ELSE
    LET packages_arg == d.packages_arg[1]
    IN  CASE d.packages_arg_type = "List" -> item_values(d, packages_arg.items)
          [] d.packages_arg_type = "Call" ->
                IF /\ HasNode(packages_arg.node[1])
                   /\ HasName(packages_arg.node[1].node[1])
                   /\ HasAttr(packages_arg.node[1])
                THEN LET package_name == packages_arg.node[1].node[1].name
                         macro_name == packages_arg.node[1].attr
                     IN  IF StartsWithGet(macro_name) /\ HasNamespaces(macro_name)
                         THEN [d EXCEPT !.packages =
                                  get_dispatch_list(c, package_name \o "_dispatch_list",
                                                    <<package_name>>)]
                         ELSE Raise(d, "CompilationException: custom macro")
                ELSE d
          [] d.packages_arg_type = "Add" ->
                With(namespace_var_of([namespace_var |-> "", err |-> "ok"],
                                      find_all_calls(ChildNodes(packages_arg))),
                     LAMBDA r :
                    IF r.err # "ok" THEN Raise(d, r.err)
                    ELSE IF packages_arg.right[1].type # "List" THEN Raise(d, "AttributeError")
                    ELSE With(item_values(d, packages_arg.right[1].items), LAMBDA dn :
                            IF Ok(dn) /\ r.namespace_var # ""
                            THEN [dn EXCEPT !.packages =
                                     get_dispatch_list(c, r.namespace_var, dn.packages)]
                            ELSE [dn EXCEPT !.packages = <<>>]))
          [] OTHER -> d

\* lines 168-176
dispatch_record(d, with_wrapper) ==
    IF ~Ok(d) THEN d
    ELSE IF with_wrapper
    THEN With(dispatch(d.func_name, d.packages), LAMBDA macro :
            IF macro = <<>> THEN Raise(d, "CompilationException: no macro")
            ELSE [d EXCEPT !.func_name = macro[1] \o "." \o macro[2],
                           !.calls = Append(@, macro[1] \o "." \o macro[2])])
    ELSE [d EXCEPT !.calls =
            @ \o [i \in DOMAIN d.packages |-> d.packages[i] \o "." \o d.func_name]]

\* returns the dispatch state: calls is the returned list, err the exception
statically_parse_adapter_dispatch(func_call, c, with_wrapper) ==
    dispatch_record(
        dispatch_packages(
            dispatch_kwargs(dispatch_positional(dispatch_name(func_call), func_call),
                            func_call.kwargs),
            c),
        with_wrapper)

standard_calls == {"source", "ref", "config"}

\* lines 51-59: what the loop does with a func_name; ctx.get(func_name) is
\* truthy for the keys of c.defined only
record_call(found, c, func_name) ==
    IF func_name \in standard_calls \/ func_name \in c.defined \/ Contains(found, func_name)
    THEN found
    ELSE Append(found, func_name)

\* extract_call that records every attribute of adapter but dispatch as a
\* qualified reference
extract_call_adapterattr(found, func_call, c, with_wrapper) ==
    IF HasName(func_call.node[1])
    THEN [calls |-> record_call(found, c, func_call.node[1].name), err |-> "ok"]
    ELSE IF /\ HasNode(func_call.node[1])
            /\ func_call.node[1].node[1].type = "Name"
            /\ HasAttr(func_call.node[1])
    THEN LET package_name == func_call.node[1].node[1].name
             macro_name == func_call.node[1].attr
         IN  IF package_name = "adapter" /\ macro_name = "dispatch"
             THEN With(statically_parse_adapter_dispatch(func_call, c, with_wrapper),
                       LAMBDA d : [calls |-> found \o d.calls, err |-> d.err])
             ELSE [calls |-> record_call(found, c, package_name \o "." \o macro_name),
                   err |-> "ok"]
    ELSE [calls |-> found, err |-> "ok"]

\* one iteration of the loop of statically_extract_macro_calls (lines 14-59):
\* found is possible_macro_calls; returns the list and the exception
extract_call(found, func_call, c, with_wrapper) ==
    IF HasName(func_call.node[1])
    THEN [calls |-> record_call(found, c, func_call.node[1].name), err |-> "ok"]
    ELSE IF /\ HasNode(func_call.node[1])
            /\ func_call.node[1].node[1].type = "Name"
            /\ HasAttr(func_call.node[1])
    THEN LET package_name == func_call.node[1].node[1].name
             macro_name == func_call.node[1].attr
         IN  IF package_name = "adapter"
             THEN IF macro_name = "dispatch"
                  THEN With(statically_parse_adapter_dispatch(func_call, c, with_wrapper),
                            LAMBDA d : [calls |-> found \o d.calls, err |-> d.err])
                  ELSE [calls |-> found, err |-> "ok"]
             ELSE [calls |-> record_call(found, c, package_name \o "." \o macro_name),
                   err |-> "ok"]
    ELSE [calls |-> found, err |-> "ok"]

\* ---- the templates analysed
MaxExprs == 2      \* expressions of one template

\* expressions that may stand for the packages argument of adapter.dispatch
PackagesArgs ==
    {List(<<Const("dbt_utils")>>),
     List(<<>>),
     List(<<Const("local"), Const("dbt_utils")>>),
     Call(Getattr(Name("local_utils"), "_get_utils_namespaces"), <<>>, <<>>),
     Call(Getattr(Name("local_utils"), "_get_packages"), <<>>, <<>>),
     Call(Name("some_custom_macro"), <<>>, <<>>),
     Add(Call(Name("var"), <<Const("local_utils_dispatch_list")>>, <<>>),
         List(<<Const("dbt_utils")>>)),
     Name("pkgs")}

AdapterDispatch(args, kwargs) == Call(Getattr(Name("adapter"), "dispatch"), args, kwargs)

DispatchCalls ==
    {AdapterDispatch(<<Const("current_timestamp")>>, <<>>),
     AdapterDispatch(<<>>, <<Keyword("macro_name", Const("foo"))>>),
     AdapterDispatch(<<>>, <<Keyword("macro_name", Name("m"))>>)}
    \cup {AdapterDispatch(<<Const("current_timestamp"), p>>, <<>>) : p \in PackagesArgs}
    \cup {AdapterDispatch(<<Const("current_timestamp")>>, <<Keyword("packages", p)>>) :
              p \in PackagesArgs}

\* {{ ref('x') }}, {{ my_macro() }}, {{ execute() }},
\* {{ dbt_utils.current_timestamp() }}, {{ adapter.parse_index() }},
\* {{ adapter.dispatch(...) }} and {{ adapter.dispatch(...)() }}
Exprs ==
    {Call(Name("ref"), <<Const("x")>>, <<>>),
     Call(Name("my_macro"), <<>>, <<>>),
     Call(Name("execute"), <<>>, <<>>),
     Call(Getattr(Name("dbt_utils"), "current_timestamp"), <<>>, <<>>),
     Call(Getattr(Name("adapter"), "parse_index"), <<>>, <<>>)}
    \cup DispatchCalls
    \cup {Call(AdapterDispatch(<<Const("current_timestamp")>>,
                               <<Keyword("packages", List(<<Const("dbt_utils")>>))>>),
               <<>>, <<>>)}

Templates == UNION {[1..n -> Exprs] : n \in 1..MaxExprs}

\* ctx: defined are the keys bound to a truthy value (ctx.get(key) is truthy),
\* falsy the keys bound to a falsy one, vars what ctx['var'] looks up (with
\* no key 'var' every lookup raises)
Contexts ==
    {[defined |-> {}, falsy |-> {}, vars |-> EmptyDict],
     [defined |-> {"my_macro", "var"}, falsy |-> {},
      vars |-> [local_utils_dispatch_list |-> <<"local">>]],
     [defined |-> {"var"}, falsy |-> {"execute"},
      vars |-> [local_utils_dispatch_list |-> <<>>]]}

InitJinja ==
    /\ Loaded("parse", {0}, {TRUE})
    /\ template \in Templates
    /\ ctx \in Contexts
    /\ db_wrapper \in BOOLEAN
    /\ func_calls = <<>>
    /\ possible_macro_calls = <<>>

pvars == <<saved_manifest, deleted_manifest, new_files, file_diff, project_parser_files,
           todo, result, edits, calls, start_manifest, merged, handled>>

\* env.parse(string) and parsed.find_all(jinja2.nodes.Call)
Parse ==
    /\ pc = "parse"
    /\ func_calls' = find_all_calls(template)
    /\ pc' = "walk"
    /\ UNCHANGED <<pvars, err, template, ctx, db_wrapper, possible_macro_calls>>

\* one iteration of the loop over the calls
ExtractCall ==
    /\ pc = "walk"
    /\ func_calls # <<>>
    /\ With(extract_call(possible_macro_calls, Head(func_calls), ctx, db_wrapper),
            LAMBDA r :
                /\ possible_macro_calls' = r.calls
                /\ err' = r.err
                /\ pc' = IF r.err = "ok" THEN "walk" ELSE "raised")
    /\ func_calls' = Tail(func_calls)
    /\ UNCHANGED <<pvars, template, ctx, db_wrapper>>

\* return possible_macro_calls
ExtractReturn ==
    /\ pc = "walk"
    /\ func_calls = <<>>
    /\ pc' = "returned"
    /\ UNCHANGED <<pvars, err, jvars>>

NextJinja == Parse \/ ExtractCall \/ ExtractReturn

SpecJinja == InitJinja /\ [][NextJinja]_vars

\* ================================================================ claims
\* get_parsing_files has been called on the PartialParsing object
Called == pc \in {"skipped", "run", "done", "error"}

FiveEmpty ==
    /\ file_diff.deleted = {}
    /\ file_diff.added = {}
    /\ file_diff.changed = {}
    /\ file_diff.changed_schema_files = {}
    /\ file_diff.deleted_schema_files = {}

\* the file ids of every project/parser list of a schedule
ScheduledIn(ppf) ==
    UNION {Range(ppf[p][k]) : <<p, k>> \in {<<p, k>> \in (DOMAIN ppf) \X
              {"MacroParser", "ModelParser", "SnapshotParser", "AnalysisParser",
               "DataTestParser", "SeedParser", "DocumentationParser", "SchemaParser"} :
              k \in DOMAIN ppf[p]}}

\* C1: with the five change buckets empty, every call of get_parsing_files
\* (the first and any later one) takes the fast path: it returns the empty
\* schedule and the saved manifest, the removed manifest and the schedule are
\* what they were when the manifest was loaded.
C1_FastPath ==
    (Called /\ FiveEmpty) =>
        /\ pc = "skipped"
        /\ result = EmptyDict
        /\ saved_manifest = start_manifest
        /\ deleted_manifest = EmptyManifest
        /\ project_parser_files = EmptyDict

\* get_parsing_files ran twice on an empty diff
C1_Witness == pc = "skipped" /\ calls = 2 /\ FiveEmpty /\ result = EmptyDict

\* C2: skip_parsing is true exactly when the five change buckets are empty,
\* whatever the unchanged bucket holds.
C2_SkipIff == pc # "edit" => (skip_parsing <=> FiveEmpty)

\* only a schema file was deleted: one bucket non-empty, unchanged non-empty
C2_Witness ==
    /\ pc = "built"
    /\ ~skip_parsing
    /\ file_diff.deleted_schema_files # {}
    /\ file_diff.deleted = {} /\ file_diff.added = {} /\ file_diff.changed = {}
    /\ file_diff.changed_schema_files = {}
    /\ file_diff.unchanged # {}

\* the buckets of the file diff that hold file id f
BucketsOf(f) ==
    {b \in {"deleted", "deleted_schema_files", "added", "changed", "changed_schema_files",
            "unchanged"} : f \in file_diff[b]}

\* C3: build_file_diff puts every id of saved or new files in exactly one
\* bucket, chosen by presence, checksum equality and the saved kind, and no
\* other id in any bucket. (start_manifest.files are the saved files the
\* constructor saw.)
C3_Partition ==
    pc # "edit" =>
        \A f \in AllFiles :
            LET S == start_manifest.files
                inS == f \in DOMAIN S
                inN == f \in DOMAIN new_files
            IN  BucketsOf(f) =
                    IF inS /\ ~inN
                    THEN IF S[f].parse_file_type = "Schema"
                         THEN {"deleted_schema_files"} ELSE {"deleted"}
                    ELSE IF inN /\ ~inS THEN {"added"}
                    ELSE IF inS /\ inN
                    THEN IF S[f].checksum = new_files[f].checksum THEN {"unchanged"}
                         ELSE IF S[f].parse_file_type = "Schema"
                         THEN {"changed_schema_files"} ELSE {"changed"}
                    ELSE {}

\* a schema file was deleted and a regular file changed
C3_Witness ==
    /\ pc = "built"
    /\ file_diff.deleted_schema_files # {}
    /\ file_diff.changed # {}
    /\ file_diff.unchanged # {}

\* the nodes C4 expects removed with the model file f: its node and the
\* tests the patching schema file declares on it
CascadeOf(f) ==
    {NodeIdOfFile(f)} \cup
    {t \in DOMAIN start_manifest.nodes :
        /\ t[1] = "test"
        /\ start_manifest.nodes[t].depends_on_nodes[1] = NodeIdOfFile(f)}

\* C4: a deleted model file whose node is patched by a schema file that is
\* not deleted: once delete_from_saved has handled the file, the call is still
\* running normally, exactly the model node and its tests have moved from the
\* saved to the removed manifest, and the schema file is scheduled.
C4_CascadeCompleteness ==
    \A f \in {"m1.sql", "m2.sql"} :
        (/\ Called
         /\ file_diff.deleted = {f}
         /\ file_diff.added = {} /\ file_diff.changed = {}
         /\ file_diff.changed_schema_files = {} /\ file_diff.deleted_schema_files = {}
         /\ f \notin todo.deleted
         /\ start_manifest.nodes[NodeIdOfFile(f)].patch_path = "schema.yml")
        => /\ err = "ok"
           /\ DOMAIN deleted_manifest.nodes = CascadeOf(f)
           /\ DOMAIN saved_manifest.nodes = (DOMAIN start_manifest.nodes) \ CascadeOf(f)
           /\ "schema.yml" \in ScheduledIn(project_parser_files)

\* the names merged so far under a section key
MergedNames(key) == {merged[i][2].name : i \in {j \in DOMAIN merged : merged[j][1] = key}}

\* C5: after any sequence of merge_patch calls on a schema file that had no
\* pending patch, the pending patch holds the document's version marker and,
\* under each section, one element for each name merged there and no name
\* twice; before the first call there is no pending patch.
C5_MergeIdempotence ==
    pc = "merge" =>
        LET schema_file == saved_manifest.files["schema.yml"]
            pp == schema_file.pp_dict
        IN  IF merged = <<>> THEN pp = EmptyDict
            ELSE /\ "version" \in DOMAIN pp
                 /\ pp["version"] = schema_file.dfy["version"]
                 /\ \A key \in MergeKeys :
                        IF MergedNames(key) = {} THEN key \notin DOMAIN pp
                        ELSE /\ key \in DOMAIN pp
                             /\ {pp[key][i].name : i \in DOMAIN pp[key]} = MergedNames(key)
                             /\ Len(pp[key]) = Cardinality(MergedNames(key))

\* two elements named m1 were merged under models and one is queued
C5_Witness ==
    /\ pc = "merge"
    /\ \E i, j \in DOMAIN merged :
            i < j /\ merged[i][1] = "models" /\ merged[j][1] = "models"
                  /\ merged[i][2].name = "m1" /\ merged[j][2].name = "m1"
    /\ Len(SelectSeq(saved_manifest.files["schema.yml"].pp_dict["models"],
                      LAMBDA e : e.name = "m1")) = 1

\* the sources entries of the section diff of schema file f that carry an
\* 'override' key (a changed or added entry is the new document's element, a
\* deleted one the saved document's)
OverridesInDiff(f) ==
    LET s == start_manifest.files[f].dfy
        n == IF f \in DOMAIN new_files THEN new_files[f].dfy ELSE EmptyDict
        sn == elements_by_name(DocElems(s, "sources"))
        nn == elements_by_name(DocElems(n, "sources"))
    IN  {x \in DiffNames("sources", s, n) :
            IF x \in DOMAIN nn THEN nn[x].override ELSE sn[x].override}

\* C6: once a changed or deleted schema file whose sources diff has an entry
\* with 'override' has been handled, the call has failed with the
\* unsupported-override error, no schedule was returned, and no source node of
\* such an entry has left the saved manifest.
C6_OverrideRejection ==
    (/\ Called
     /\ "schema.yml" \in file_diff.changed_schema_files \cup file_diff.deleted_schema_files
     /\ "schema.yml" \notin todo.changed_schema_files \cup todo.deleted_schema_files
     /\ OverridesInDiff("schema.yml") # {})
    => /\ pc = "error"
       /\ err = "Exception: source override"
       /\ result = EmptyDict
       /\ \A id \in DOMAIN start_manifest.sources :
              start_manifest.sources[id].source_name \in OverridesInDiff("schema.yml")
                  => id \in DOMAIN saved_manifest.sources

\* the template is the one expression {{ adapter.dispatch('current_timestamp', ...) }}
\* with the packages argument p, positional or by keyword
DispatchesWith(p) ==
    \/ template = <<AdapterDispatch(<<Const("current_timestamp"), p>>, <<>>)>>
    \/ template = <<AdapterDispatch(<<Const("current_timestamp")>>,
                                    <<Keyword("packages", p)>>)>>

\* C7: with a database wrapper, a template that is one adapter.dispatch call
\* with a literal list of packages yields exactly the one id the wrapper's
\* dispatch returns for the name and the packages; for packages=['dbt_utils']
\* that is dbt_utils.default__current_timestamp.
C7_DispatchWithResolver ==
    \A items \in {<<"dbt_utils">>, <<"local", "dbt_utils">>} :
        (/\ pc = "returned"
         /\ db_wrapper
         /\ DispatchesWith(List([i \in DOMAIN items |-> Const(items[i])])))
        => possible_macro_calls =
              <<dispatch("current_timestamp", items)[1] \o "." \o
                dispatch("current_timestamp", items)[2]>>

\* packages expressions that are no literal list, no namespace-fetch call and
\* no var-lookup addition
UnsupportedPackagesArgs ==
    {Call(Name("some_custom_macro"), <<>>, <<>>),
     Call(Getattr(Name("local_utils"), "_get_packages"), <<>>, <<>>),
     Name("pkgs")}

\* C8: a template that is one adapter.dispatch call with an unsupported
\* packages expression never returns a list: extraction ends with the
\* compilation error about the packages argument.
C8_UnsupportedPackages ==
    \A p \in UnsupportedPackagesArgs :
        (DispatchesWith(p) /\ pc \in {"returned", "raised"})
        => (pc = "raised" /\ err = "CompilationException: custom macro")

EntityKinds == {"nodes", "macros", "docs", "sources", "exposures"}

\* C9: every call of get_parsing_files returns a schedule, and reparsing the
\* scheduled files can then give the manifest of a full parse of the new
\* files: the saved files are the new files, every entity the full parse does
\* not have belongs to a scheduled file, and so does every entity of the full
\* parse that the saved manifest lacks.
C9_RoundTrip ==
    pc \in {"done", "error"} =>
        /\ pc = "done"
        /\ DOMAIN saved_manifest.files = DOMAIN new_files
        /\ \A kind \in EntityKinds :
              LET full == FullParse(new_files)[kind]
                  mine == saved_manifest[kind]
              IN  /\ \A id \in (DOMAIN mine) \ (DOMAIN full) :
                        mine[id].file_id \in ScheduledIn(result)
                  /\ \A id \in (DOMAIN full) \ (DOMAIN mine) :
                        full[id].file_id \in ScheduledIn(result)

\* C10: no file id of the deleted bucket is in any project/parser list of
\* the schedule being built or of the schedule returned.
C10_NoDeletedScheduled ==
    file_diff.deleted \cap
        (ScheduledIn(project_parser_files) \cup ScheduledIn(result)) = {}

\* the macros entry of schema.yml was unlinked while the macro's own file is
\* deleted: the macro parser's list exists and does not hold the file
C10_Witness ==
    /\ "mac1.sql" \in file_diff.deleted
    /\ "mac1.sql" \in DOMAIN saved_manifest.files
    /\ MacroId("mac1") \in DOMAIN deleted_manifest.macros
    /\ ProjectName \in DOMAIN project_parser_files
    /\ "MacroParser" \in DOMAIN project_parser_files[ProjectName]
    /\ ~Contains(project_parser_files[ProjectName]["MacroParser"], "mac1.sql")

\* no list of the schedule holds a file id twice
NoDuplicates(ppf) ==
    \A p \in DOMAIN ppf : \A k \in DOMAIN ppf[p] :
        \A i, j \in DOMAIN ppf[p][k] : ppf[p][k][i] = ppf[p][k][j] => i = j

\* every list of the schedule old is a prefix of its list in the schedule new
GrowsByAppending(old, new) ==
    \A p \in DOMAIN old :
        /\ p \in DOMAIN new
        /\ \A k \in DOMAIN old[p] :
              /\ k \in DOMAIN new[p]
              /\ Len(old[p][k]) <= Len(new[p][k])
              /\ SubSeq(new[p][k], 1, Len(old[p][k])) = old[p][k]

\* scheduling any saved file that is already in its list changes nothing
ReschedulingIsNoOp ==
    \A f \in DOMAIN saved_manifest.files :
        LET source_file == saved_manifest.files[f]
            parser_name == parse_file_type_to_parser[source_file.parse_file_type]
        IN  (/\ source_file.project_name \in DOMAIN project_parser_files
             /\ parser_name \in DOMAIN project_parser_files[source_file.project_name]
             /\ Contains(project_parser_files[source_file.project_name][parser_name], f))
            => add_to_pp_files(Current, source_file).ppf = project_parser_files

\* C11: in every step of a run each project/parser list of the schedule keeps
\* the ids it has, in their order, and grows only at its end; afterwards no
\* list holds an id twice and scheduling a file that is already in its list
\* leaves the schedule as it is.
C11_ScheduleLists ==
    [][/\ GrowsByAppending(project_parser_files, project_parser_files')
       /\ NoDuplicates(project_parser_files')
       /\ ReschedulingIsNoOp']_vars

\* schema.yml was scheduled as a changed schema file and again by the removal
\* of the node of a changed model file that it patches: it is listed once
C11_Witness ==
    /\ pc = "done"
    /\ "schema.yml" \in file_diff.changed_schema_files
    /\ "m1.sql" \in file_diff.changed
    /\ NodeIdOfFile("m1.sql") \in DOMAIN deleted_manifest.nodes
    /\ DOMAIN saved_manifest.files["schema.yml"].pp_dict = {"version", "models"}
    /\ result[ProjectName]["SchemaParser"] = <<"schema.yml">>
    /\ result[ProjectName]["ModelParser"] = <<"m1.sql">>

\* the document the run finds for schema file f: empty when the file is gone
NewDocOf(f) == IF f \in DOMAIN new_files THEN new_files[f].dfy ELSE EmptyDict

\* the names the section diff of schema file f classifies deleted under key
DeletedNames(f, key) ==
    ElemNames(start_manifest.files[f].dfy, key) \ ElemNames(NewDocOf(f), key)

\* the loop of get_parsing_files that handles schema file f has handled it
SchemaFileHandled(f) ==
    /\ Called
    /\ f \in file_diff.changed_schema_files \cup file_diff.deleted_schema_files
    /\ f \notin todo.changed_schema_files \cup todo.deleted_schema_files

\* C12: once a changed or deleted schema file with a deleted sources entry
\* (and no override entry in its sources diff) has been handled, the run has
\* not failed, every source id of a deleted entry has moved from the saved to
\* the removed manifest's sources, and when the whole file was deleted (it is
\* the only file declaring sources) the saved manifest has no source left.
C12_SourceDeletion ==
    (/\ SchemaFileHandled("schema.yml")
     /\ DeletedNames("schema.yml", "sources") # {}
     /\ OverridesInDiff("schema.yml") = {})
    => /\ err = "ok"
       /\ \A id \in DOMAIN start_manifest.sources :
              start_manifest.sources[id].source_name \in DeletedNames("schema.yml", "sources")
                  => /\ id \notin DOMAIN saved_manifest.sources
                     /\ id \in DOMAIN deleted_manifest.sources
       /\ "schema.yml" \in file_diff.deleted_schema_files
              => DOMAIN saved_manifest.sources = {}

\* the section diff of the saved document of schema file f against the
\* empty document, the names taken in some order
DiffAgainstEmpty(f, key) ==
    get_diff_for(key, start_manifest.files[f].dfy, EmptyDict,
                 CHOOSE o \in Orderings(ElemNames(start_manifest.files[f].dfy, key)) : TRUE)

\* every id of the list ids has left the map saved and is in the map removed
Moved(ids, saved, removed) ==
    \A i \in DOMAIN ids : ids[i] \notin DOMAIN saved /\ ids[i] \in DOMAIN removed

\* C13: once a deleted schema file (no override entry among its sources) has
\* been handled, the run has not failed; the diff against the empty document
\* classified every element of every section deleted and none added or
\* changed; every node it patched, test, source, patched macro and exposure
\* it recorded has moved to the removed manifest; the file has moved from
\* the saved to the removed files and the files it patched are still saved.
C13_DeletedSchemaFile ==
    (/\ Called
     /\ "schema.yml" \in file_diff.deleted_schema_files
     /\ "schema.yml" \notin todo.deleted_schema_files
     /\ OverridesInDiff("schema.yml") = {})
    => LET old == start_manifest.files["schema.yml"]
       IN  /\ err = "ok"
           /\ \A key \in SectionKeys :
                  /\ DiffAgainstEmpty("schema.yml", key).added = <<>>
                  /\ DiffAgainstEmpty("schema.yml", key).changed = <<>>
                  /\ {Items(e) : e \in Range(DiffAgainstEmpty("schema.yml", key).deleted)}
                         = Range(DocElems(old.dfy, key))
           /\ Moved(old.node_patches, saved_manifest.nodes, deleted_manifest.nodes)
           /\ Moved(old.tests, saved_manifest.nodes, deleted_manifest.nodes)
           /\ Moved(old.sources, saved_manifest.sources, deleted_manifest.sources)
           /\ Moved(old.macro_patches, saved_manifest.macros, deleted_manifest.macros)
           /\ Moved(old.exposures, saved_manifest.exposures, deleted_manifest.exposures)
           /\ "schema.yml" \notin DOMAIN saved_manifest.files
           /\ "schema.yml" \in DOMAIN deleted_manifest.files
           /\ {"m1.sql", "a1.sql", "mac1.sql"} \subseteq DOMAIN saved_manifest.files

\* C14: once the loop over the added bucket is over, every added file id is
\* a key of the saved files bound to the new SourceFile, whose pending patch
\* is its declarative document when it is of Schema kind, and is in the list
\* of its own project and of the parser of its kind, whatever the other
\* buckets hold and whatever the rest of the run does.
C14_AddedFiles ==
    (pc \in {"run", "done", "error"} /\ todo.added = {}) =>
        \A f \in file_diff.added :
            /\ f \in DOMAIN saved_manifest.files
            /\ saved_manifest.files[f] =
                  [new_files[f] EXCEPT !.pp_dict =
                      IF new_files[f].parse_file_type = "Schema" THEN new_files[f].dfy ELSE @]
            /\ new_files[f].project_name \in DOMAIN project_parser_files
            /\ parse_file_type_to_parser[new_files[f].parse_file_type]
                  \in DOMAIN project_parser_files[new_files[f].project_name]
            /\ Contains(project_parser_files[new_files[f].project_name]
                            [parse_file_type_to_parser[new_files[f].parse_file_type]], f)

\* model file m3.sql and schema2.yml, which patches and tests m3, were added
\* in the same run and the run is over
C14_Witness ==
    /\ pc = "done"
    /\ file_diff.added = {"m3.sql", "schema2.yml"}
    /\ saved_manifest.files["schema2.yml"].pp_dict = Doc2
    /\ result[ProjectName]["ModelParser"] = <<"m3.sql">>
    /\ result[ProjectName]["SchemaParser"] = <<"schema2.yml">>

\* the section key of a node id prefix
KeyOfPrefix(prefix) == CHOOSE k \in DOMAIN key_to_prefix : key_to_prefix[k] = prefix

\* the node a schema element is about when it names node n of the saved
\* manifest: n itself as patch target, or the node that test n tests
NamedNode(n) ==
    IF n[1] = "test" THEN start_manifest.nodes[n].depends_on_nodes[1] ELSE n

\* a schema element naming node n is added, changed or deleted in this run
ElementTouched(n) ==
    LET key == KeyOfPrefix(NamedNode(n)[1])
        name == NamedNode(n)[3]
    IN  \/ \E s \in file_diff.changed_schema_files \cup file_diff.deleted_schema_files :
              name \in DiffNames(key, start_manifest.files[s].dfy, NewDocOf(s))
        \/ \E s \in file_diff.added :
              new_files[s].parse_file_type = "Schema" /\ name \in ElemNames(new_files[s].dfy, key)

\* node n of the saved manifest is where and what it was
Survives(n) ==
    /\ n \in DOMAIN saved_manifest.nodes
    /\ saved_manifest.nodes[n] = start_manifest.nodes[n]
    /\ n \notin DOMAIN deleted_manifest.nodes

\* C15 as stated: during and after get_parsing_files, a node whose owning
\* file is unchanged and that no added, changed or deleted schema element
\* names is still in the saved nodes, as it was, and not in the removed ones.
C15_UnaffectedNodes ==
    Called =>
        \A n \in DOMAIN start_manifest.nodes :
            (/\ start_manifest.nodes[n].file_id \in file_diff.unchanged
             /\ ~ElementTouched(n))
            => Survives(n)

\* C15 amended: the same for every node that is not a test of a node whose
\* own file is changed or deleted (such a test is removed with the node it tests).
C15_UnaffectedNodesAmended ==
    Called =>
        \A n \in DOMAIN start_manifest.nodes :
            (/\ start_manifest.nodes[n].file_id \in file_diff.unchanged
             /\ start_manifest.nodes[NamedNode(n)].file_id \in file_diff.unchanged
             /\ ~ElementTouched(n))
            => Survives(n)

\* the models entry m1 of schema.yml and file m2.sql were changed: the node
\* of m1 was removed, the node of a1 is still saved and the run is over
C15_Witness ==
    /\ pc = "done"
    /\ "schema.yml" \in file_diff.changed_schema_files
    /\ "m2.sql" \in file_diff.changed
    /\ ElementTouched(NodeIdOfFile("m1.sql"))
    /\ NodeIdOfFile("m1.sql") \in DOMAIN deleted_manifest.nodes
    /\ ~ElementTouched(NodeIdOfFile("a1.sql"))
    /\ Survives(NodeIdOfFile("a1.sql"))

\* the list refs without the later occurrences of each of its strings
RECURSIVE FirstOccurrences(_, _)
FirstOccurrences(seen, refs) ==
    IF refs = <<>> THEN seen
    ELSE FirstOccurrences(IF Contains(seen, Head(refs)) THEN seen ELSE Append(seen, Head(refs)),
                          Tail(refs))

\* what each call expression of the template contributes on its own, in the
\* order of the walk
ReferencesOfWalk ==
    Flatten([i \in DOMAIN find_all_calls(template) |->
                extract_call(<<>>, find_all_calls(template)[i], ctx, db_wrapper).calls])

\* C16: the list statically_extract_macro_calls returns holds no string twice
\* and lists the references of the walk, those of adapter.dispatch calls
\* included, in the order of their first occurrence.
C16_OrderedNoDuplicates ==
    pc = "returned" =>
        /\ \A i, j \in DOMAIN possible_macro_calls :
              possible_macro_calls[i] = possible_macro_calls[j] => i = j
        /\ possible_macro_calls = FirstOccurrences(<<>>, ReferencesOfWalk)

\* literal lists of candidate packages
PackageLists == {<<>>, <<"dbt_utils">>, <<"local", "dbt_utils">>}

\* C17: without a database wrapper, a template that is one adapter.dispatch
\* call of macro current_timestamp with the literal package list p1..pn
\* yields exactly 'p1.current_timestamp', ..., 'pn.current_timestamp' in that
\* order, and nothing when the list is empty.
C17_DispatchWithoutResolver ==
    \A items \in PackageLists :
        (/\ pc = "returned"
         /\ ~db_wrapper
         /\ DispatchesWith(List([i \in DOMAIN items |-> Const(items[i])])))
        => possible_macro_calls =
              [i \in DOMAIN items |-> items[i] \o "." \o "current_timestamp"]

\* the template is a single adapter.dispatch call
OneDispatch ==
    /\ Len(template) = 1
    /\ template[1] \in DispatchCalls

\* the values of the macro_name keyword arguments of a call
MacroNameArgs(func_call) ==
    SelectSeq(func_call.kwargs, LAMBDA kwarg : kwarg.key = "macro_name")

\* C18: for a template that is a single adapter.dispatch call, the macro
\* name is the literal first positional argument when there is one, else
\* the literal macro_name keyword argument; with a macro_name keyword that
\* is no literal, extraction ends with the compilation error about the
\* macro_name parameter and has recorded no reference.
C18_DispatchMacroName ==
    OneDispatch =>
        LET func_call == template[1]
            d == statically_parse_adapter_dispatch(func_call, ctx, FALSE)
        IN  /\ (func_call.args # <<>> /\ HasValue(func_call.args[1]))
                  => d.func_name = func_call.args[1].value
            /\ (func_call.args = <<>> /\ MacroNameArgs(func_call) # <<>>
                   /\ HasValue(MacroNameArgs(func_call)[1].value))
                  => d.func_name = MacroNameArgs(func_call)[1].value.value
            /\ (func_call.args = <<>> /\ MacroNameArgs(func_call) # <<>>
                   /\ ~HasValue(MacroNameArgs(func_call)[1].value)
                   /\ pc \in {"returned", "raised"})
                  => /\ pc = "raised"
                     /\ err = "CompilationException: macro_name"
                     /\ possible_macro_calls = <<>>

\* the buckets in the order of the loops of get_parsing_files
BucketOrder ==
    <<"added", "changed_schema_files", "deleted_schema_files", "deleted", "changed">>

\* C19: get_parsing_files starts with every file of the five buckets to be
\* processed; each step of the run processes one file of one bucket, and
\* only when no file of an earlier bucket (in the order added, changed
\* schema, deleted schema, deleted, changed) is left; no file comes back; it
\* returns the schedule only when no file of any bucket is left.
C19_BucketOrder ==
    [][/\ (pc = "built" /\ pc' = "run") =>
             \A k \in DOMAIN BucketOrder : todo'[BucketOrder[k]] = file_diff[BucketOrder[k]]
       /\ pc = "run" =>
             /\ \A k \in DOMAIN BucketOrder :
                   todo'[BucketOrder[k]] # todo[BucketOrder[k]] =>
                       /\ \A j \in 1..(k - 1) : todo[BucketOrder[j]] = {}
                       /\ \E f \in todo[BucketOrder[k]] :
                             todo'[BucketOrder[k]] = todo[BucketOrder[k]] \ {f}
                       /\ \A j \in DOMAIN BucketOrder :
                             j # k => todo'[BucketOrder[j]] = todo[BucketOrder[j]]
             /\ pc' = "done" =>
                   \A k \in DOMAIN BucketOrder : todo'[BucketOrder[k]] = {}]_vars

\* a run with files in two buckets or more, the changed bucket among them,
\* has processed every file and returned
C19_Witness ==
    /\ pc = "done"
    /\ Cardinality({k \in DOMAIN BucketOrder : file_diff[BucketOrder[k]] # {}}) >= 2
    /\ file_diff.changed # {}
    /\ \A k \in DOMAIN BucketOrder : todo[BucketOrder[k]] = {}

\* change_schema_file has just returned for f: the loop over the changed
\* schema files is over and no later loop has started
JustChanged(f) ==
    /\ pc = "run"
    /\ f \in file_diff.changed_schema_files
    /\ todo.changed_schema_files = {}
    /\ todo.deleted_schema_files = file_diff.deleted_schema_files
    /\ todo.deleted = file_diff.deleted
    /\ todo.changed = file_diff.changed

\* the names whose ids the section diff of the changed schema file f may
\* unlink from the index: those of the diff of the sections the index serves
UnlinkedNames(f, index) ==
    LET diff(key) == DiffNames(key, start_manifest.files[f].dfy, new_files[f].dfy)
    IN  CASE index = "node_patches" -> UNION {diff(mssa_keys[k]) : k \in 1..4}
          [] index = "tests" -> UNION {diff(mssa_keys[k]) : k \in 1..3}
          [] index = "macro_patches" -> diff("macros")
          [] index = "sources" -> diff("sources")
          [] index = "exposures" -> diff("exposures")

\* C20: right after change_schema_file has handled f, the saved entry of f
\* is the saved file with the contents, checksum and document of the new
\* file; every id of its five indexes whose element the section diff did
\* not touch is still there, in the same order; and f is scheduled.
C20_ChangedSchemaFile ==
    \A f \in {"schema.yml"} :
        JustChanged(f) =>
            LET sf == saved_manifest.files[f]
                old == start_manifest.files[f]
            IN  /\ sf.contents = new_files[f].contents
                /\ sf.checksum = new_files[f].checksum
                /\ sf.dfy = new_files[f].dfy
                /\ sf.file_id = old.file_id /\ sf.parse_file_type = old.parse_file_type
                /\ sf.nodes = old.nodes
                /\ \A index \in {"node_patches", "tests", "macro_patches", "sources",
                                  "exposures"} :
                      SelectSeq(sf[index], LAMBDA id : id[3] \notin UnlinkedNames(f, index))
                        = SelectSeq(old[index], LAMBDA id : id[3] \notin UnlinkedNames(f, index))
                /\ Contains(project_parser_files[sf.project_name]["SchemaParser"], f)

\* the models entry m1 was changed: its patch id and tests are gone from the
\* indexes, the patch id of a1, the macro patch, sources and exposures stay
C20_Witness ==
    /\ JustChanged("schema.yml")
    /\ "m1" \in UnlinkedNames("schema.yml", "node_patches")
    /\ start_manifest.files["schema.yml"].tests # <<>>
    /\ saved_manifest.files["schema.yml"].tests = <<>>
    /\ saved_manifest.files["schema.yml"].node_patches = <<NodeIdOfFile("a1.sql")>>
    /\ saved_manifest.files["schema.yml"].macro_patches = <<MacroId("mac1")>>
    /\ Len(saved_manifest.files["schema.yml"].sources) = 3

\* the step of the run handles file f of a bucket
Handles(bucket, f) ==
    /\ pc = "run"
    /\ f \in todo[bucket]
    /\ todo'[bucket] = todo[bucket] \ {f}

\* the tests of the schema file s on the element called name
TestsOn(s, name) ==
    {t \in Range(saved_manifest.files[s].tests) :
        t \in DOMAIN saved_manifest.nodes
            /\ saved_manifest.nodes[t].depends_on_nodes[1][3] = name}

\* what delete_node_in_saved leaves of the one node of file f
NodeRemoved(f) ==
    LET unique_id == saved_manifest.files[f].nodes[1]
        node == saved_manifest.nodes[unique_id]
        s == node.patch_path
        key == parse_file_type_to_key[saved_manifest.files[f].parse_file_type]
    IN  /\ unique_id \notin DOMAIN saved_manifest'.nodes
        /\ unique_id \in DOMAIN deleted_manifest'.nodes
        /\ deleted_manifest'.nodes[unique_id] = node
        /\ (/\ s # ""
            /\ s \in DOMAIN saved_manifest.files
            /\ s \notin file_diff.deleted \cup file_diff.deleted_schema_files
            /\ node.name \in ElemNames(saved_manifest.files[s].dfy, key))
           => /\ ~Contains(saved_manifest'.files[s].node_patches, unique_id)
              /\ key \in {"models", "seeds", "snapshots"} =>
                    \A t \in TestsOn(s, node.name) :
                        /\ t \notin DOMAIN saved_manifest'.nodes
                        /\ t \in DOMAIN deleted_manifest'.nodes
                        /\ ~Contains(saved_manifest'.files[s].tests, t)
              /\ key \in DOMAIN saved_manifest'.files[s].pp_dict
              /\ Contains(saved_manifest'.files[s].pp_dict[key],
                          elements_by_name(saved_manifest.files[s].dfy[key])[node.name])
              /\ s \in ScheduledIn(project_parser_files')
        /\ s = "" =>
              \A g \in FilesOfType(saved_manifest.files, {"Schema"}) :
                  saved_manifest'.files[g] = saved_manifest.files[g]

\* C21: when a step of the run removes the node of a changed or deleted
\* model or analysis file, the node moves from the saved to the removed nodes;
\* if its patch_path names a schema file that is not being deleted and whose
\* document has an element of the node's name in the section of the file's
\* kind, the element is unlinked (patch id and tests), is queued under that
\* section in the pending patch and the schema file is scheduled; without
\* patch_path no schema file changes.
C21_RemoveNode ==
    [][\A f \in AllFiles :
          (/\ Handles("changed", f) \/ Handles("deleted", f)
           /\ saved_manifest.files[f].parse_file_type \in mssat_files
           /\ saved_manifest.files[f].nodes # <<>>
           /\ saved_manifest.files[f].nodes[1] \in DOMAIN saved_manifest.nodes)
          => NodeRemoved(f)]_vars

\* model file m1.sql, patched and tested by the unchanged schema.yml, was
\* changed: node and tests are removed, the models entry m1 is queued
C21_Witness ==
    /\ pc = "done"
    /\ file_diff.changed = {"m1.sql"}
    /\ "schema.yml" \in file_diff.unchanged
    /\ start_manifest.files["schema.yml"].tests # <<>>
    /\ NodeIdOfFile("m1.sql") \in DOMAIN deleted_manifest.nodes
    /\ saved_manifest.files["schema.yml"].tests = <<>>
    /\ saved_manifest.files["schema.yml"].pp_dict["models"]
          = start_manifest.files["schema.yml"].dfy["models"]
    /\ result[ProjectName]["SchemaParser"] = <<"schema.yml">>

\* the macro file f of the changed or deleted bucket has been handled
MacroFileHandled(f) ==
    /\ Called
    /\ f \in file_diff.changed \cup file_diff.deleted
    /\ f \notin todo.changed \cup todo.deleted
    /\ start_manifest.files[f].parse_file_type = "Macro"

\* the files of the macros and nodes still saved that depend on macro id
DirectDependents(id) ==
    {saved_manifest.macros[d].file_id : d \in
        {m \in DOMAIN saved_manifest.macros :
            Contains(saved_manifest.macros[m].depends_on_macros, id)}}
    \cup
    {saved_manifest.nodes[d].file_id : d \in
        {n \in DOMAIN saved_manifest.nodes :
            Contains(saved_manifest.nodes[n].depends_on_macros, id)}}

\* C22: once a changed or deleted macro file has been handled, every macro
\* id it owned has moved from the saved to the removed macros, and the file
\* of every macro and node still saved that depends on such an id is
\* scheduled, unless that file is in the deleted bucket.
C22_MacroCascade ==
    \A f \in {"mac1.sql", "mac2.sql"} :
        MacroFileHandled(f) =>
            \A i \in DOMAIN start_manifest.files[f].macros :
                LET id == start_manifest.files[f].macros[i]
                IN  /\ id \notin DOMAIN saved_manifest.macros
                    /\ id \in DOMAIN deleted_manifest.macros
                    /\ DirectDependents(id) \ file_diff.deleted
                          \subseteq ScheduledIn(project_parser_files)

\* C23: the step that handles a deleted or changed documentation file does
\* not fail and the run goes on with the files left; a deleted file's doc
\* ids have moved from the saved to the removed docs, a changed file is
\* bound to the new file and scheduled; when every bucket is done the
\* schedule is returned.
C23_DocFilesNonFatal ==
    [][/\ \A f \in {"doc1.md"} :
             /\ Handles("deleted", f) =>
                   /\ err' = "ok" /\ pc' = "run"
                   /\ \A i \in DOMAIN saved_manifest.files[f].docs :
                         /\ saved_manifest.files[f].docs[i] \notin DOMAIN saved_manifest'.docs
                         /\ saved_manifest.files[f].docs[i] \in DOMAIN deleted_manifest'.docs
             /\ Handles("changed", f) =>
                   /\ err' = "ok" /\ pc' = "run"
                   /\ saved_manifest'.files[f] = new_files[f]
                   /\ f \in ScheduledIn(project_parser_files')
       /\ (pc = "run" /\ pc' = "done" /\ "doc1.md" \in file_diff.deleted \cup file_diff.changed)
             => result' = project_parser_files]_vars

\* C24: the step that handles a file of the deleted bucket, whatever its
\* kind, does not fail; afterwards the id is no key of the saved files and is
\* a key of the removed files, bound to the entry the saved files held.
C24_DeletedFiles ==
    [][\A f \in AllFiles :
          Handles("deleted", f) =>
              /\ err' = "ok"
              /\ f \notin DOMAIN saved_manifest'.files
              /\ f \in DOMAIN deleted_manifest'.files
              /\ deleted_manifest'.files[f] = saved_manifest.files[f]]_vars

\* C25: the step that handles a changed model, seed, snapshot, analysis or
\* test file fails when the saved entry of the file lists no node; otherwise
\* it does not fail, the saved files map is bound to the new SourceFile, the
\* file is scheduled and the node the old entry listed has moved from the
\* saved to the removed nodes.
C25_ChangedSqlFile ==
    [][\A f \in AllFiles :
          (Handles("changed", f) /\ new_files[f].parse_file_type \in mssat_files) =>
              IF saved_manifest.files[f].nodes = <<>>
              THEN err' # "ok" /\ pc' = "error"
              ELSE /\ err' = "ok"
                   /\ saved_manifest'.files[f] = new_files[f]
                   /\ f \in ScheduledIn(project_parser_files')
                   /\ Len(saved_manifest.files[f].nodes) = 1
                   /\ saved_manifest.files[f].nodes[1] \notin DOMAIN saved_manifest'.nodes
                   /\ saved_manifest.files[f].nodes[1] \in DOMAIN deleted_manifest'.nodes
                   /\ deleted_manifest'.nodes[saved_manifest.files[f].nodes[1]]
                         = saved_manifest.nodes[saved_manifest.files[f].nodes[1]]]_vars

\* model file m1.sql and analysis file a1.sql were changed and the run is
\* over: both are rebound and scheduled, both nodes are removed
C25_Witness ==
    /\ pc = "done"
    /\ file_diff.changed = {"m1.sql", "a1.sql"}
    /\ saved_manifest.files["m1.sql"] = new_files["m1.sql"]
    /\ saved_manifest.files["a1.sql"] = new_files["a1.sql"]
    /\ saved_manifest.files["m1.sql"].checksum # start_manifest.files["m1.sql"].checksum
    /\ {NodeIdOfFile("m1.sql"), NodeIdOfFile("a1.sql")} \subseteq DOMAIN deleted_manifest.nodes
    /\ {NodeIdOfFile("m1.sql"), NodeIdOfFile("a1.sql")} \cap DOMAIN saved_manifest.nodes = {}
    /\ result[ProjectName]["ModelParser"] = <<"m1.sql">>
    /\ result[ProjectName]["AnalysisParser"] = <<"a1.sql">>

\* the names of a list of elements
NamesOf(elements) == {elements[i].name : i \in DOMAIN elements}

\* what C26 says of the diff of section key between the documents s and n
DiffIsPartition(key, s, n, diff) ==
    LET S == elements_by_name(DocElems(s, key))
        N == elements_by_name(DocElems(n, key))
    IN  /\ NamesOf(diff.added) = (DOMAIN N) \ (DOMAIN S)
        /\ NamesOf(diff.deleted) = (DOMAIN S) \ (DOMAIN N)
        /\ NamesOf(diff.changed) = {x \in (DOMAIN S) \cap (DOMAIN N) : Items(S[x]) # Items(N[x])}
        /\ NamesOf(diff.added) \cap NamesOf(diff.deleted) = {}
        /\ NamesOf(diff.added) \cap NamesOf(diff.changed) = {}
        /\ NamesOf(diff.deleted) \cap NamesOf(diff.changed) = {}
        /\ \A kind \in {"added", "deleted", "changed"} :
              Len(diff[kind]) = Cardinality(NamesOf(diff[kind]))
        /\ \A i \in DOMAIN diff.added : Items(diff.added[i]) = Items(N[diff.added[i].name])
        /\ \A i \in DOMAIN diff.changed : Items(diff.changed[i]) = Items(N[diff.changed[i].name])
        /\ \A i \in DOMAIN diff.deleted : Items(diff.deleted[i]) = Items(S[diff.deleted[i].name])
        /\ (key \notin DOMAIN s /\ key \notin DOMAIN n) =>
              diff = [deleted |-> <<>>, added |-> <<>>, changed |-> <<>>]
        /\ key \notin DOMAIN s => (diff.deleted = <<>> /\ diff.changed = <<>>)
        /\ key \notin DOMAIN n => (diff.added = <<>> /\ diff.changed = <<>>)

\* the loop over the schema files has just handled f, normally or not, and
\* no later loop has started
SchemaFileJustHandled(f) ==
    /\ SchemaFileHandled(f)
    /\ todo.deleted = file_diff.deleted
    /\ todo.changed = file_diff.changed

\* C26: for every section key of a changed or deleted schema file, and in
\* whatever order the names are visited, get_diff_for returns three lists
\* with pairwise disjoint names: added the names only in the new document,
\* deleted those only in the saved one, changed those in both with unequal
\* elements; added and changed elements have the new document's items,
\* deleted ones the saved document's; a key in neither document gives three
\* empty lists and a key in one only counts as an empty list in the other.
C26_SectionDiff ==
    \A f \in {"schema.yml"} :
        SchemaFileJustHandled(f) =>
            \A key \in SectionKeys :
                \A order \in Orderings(DiffNames(key, start_manifest.files[f].dfy, NewDocOf(f))) :
                    DiffIsPartition(key, start_manifest.files[f].dfy, NewDocOf(f),
                        get_diff_for(key, start_manifest.files[f].dfy, NewDocOf(f), order))

\* schema.yml got a first seeds entry (the section is not in the saved
\* document) and its models entry m1 was changed; change_schema_file has
\* queued both
C26_Witness ==
    /\ JustChanged("schema.yml")
    /\ "seeds" \notin DOMAIN start_manifest.files["schema.yml"].dfy
    /\ DOMAIN saved_manifest.files["schema.yml"].pp_dict = {"version", "seeds", "models"}
    /\ NamesOf(saved_manifest.files["schema.yml"].pp_dict["seeds"]) = {"s1"}
    /\ NamesOf(saved_manifest.files["schema.yml"].pp_dict["models"]) = {"m1"}
    /\ saved_manifest.files["schema.yml"].pp_dict["models"][1].v = 2

\* every element of every section of a document is the document's own object
OwnObjects(doc) ==
    \A key \in SectionKeys \cap DOMAIN doc : \A i \in DOMAIN doc[key] : doc[key][i].obj = "document"

SectionOrder == <<"models", "seeds", "snapshots", "analyses", "sources", "macros", "exposures">>

KindOrder == <<"changed", "deleted", "added">>

IndexIn(seq, x) == CHOOSE i \in DOMAIN seq : seq[i] = x

\* the place of a visit <<key, kind, name>> in that order
Rank(visit) == 3 * IndexIn(SectionOrder, visit[1]) + IndexIn(KindOrder, visit[2])

\* the visits the section diff of schema file f asks for
VisitsDue(f) ==
    LET s == start_manifest.files[f].dfy
        n == NewDocOf(f)
    IN  UNION {{<<key, IF x \notin ElemNames(s, key) THEN "added"
                       ELSE IF x \notin ElemNames(n, key) THEN "deleted"
                       ELSE "changed", x>> : x \in DiffNames(key, s, n)} : key \in SectionKeys}

\* C28: the elements handle_schema_file_changes visits come section by
\* section in the order models, seeds, snapshots, analyses, sources, macros,
\* exposures, and within a section all changed, then all deleted, then all
\* added ones; no element is visited twice, every visit is one the section
\* diff asks for, and when change_schema_file returns every such element has
\* been visited.
C28_SectionOrder ==
    /\ \A i, j \in DOMAIN handled :
          i < j => (Rank(handled[i]) <= Rank(handled[j]) /\ handled[i] # handled[j])
    /\ handled # <<>> => Range(handled) \subseteq VisitsDue("schema.yml")
    /\ JustChanged("schema.yml") => Range(handled) = VisitsDue("schema.yml")

\* schema.yml got a models entry m2 and its exposures entry e1 was changed:
\* m2 was visited as added in models before e1 as changed in exposures
C28_Witness ==
    /\ JustChanged("schema.yml")
    /\ handled = << <<"models", "added", "m2">>, <<"exposures", "changed", "e1">> >>

\* the list queued under key in the pending patch pp
Queued(pp, key) == IF key \in DOMAIN pp THEN pp[key] ELSE <<>>

\* the element called x of section key of schema file f is unlinked: its
\* patch id is off the file's list, the node it patched and (but for
\* analyses) the tests on it have moved to the removed nodes
Unlinked(f, key, x) ==
    LET id == <<key_to_prefix[key], ProjectName, x>>
    IN  /\ ~Contains(saved_manifest.files[f].node_patches, id)
        /\ Contains(start_manifest.files[f].node_patches, id) =>
              (id \notin DOMAIN saved_manifest.nodes /\ id \in DOMAIN deleted_manifest.nodes)
        /\ key # "analyses" =>
              \A i \in DOMAIN start_manifest.files[f].tests :
                  LET t == start_manifest.files[f].tests[i]
                  IN  start_manifest.nodes[t].depends_on_nodes[1][3] = x =>
                          /\ t \notin DOMAIN saved_manifest.nodes
                          /\ t \in DOMAIN deleted_manifest.nodes
                          /\ ~Contains(saved_manifest.files[f].tests, t)

\* nothing the element called x of section key names has been unlinked
NotUnlinked(f, key, x) ==
    LET id == <<key_to_prefix[key], ProjectName, x>>
    IN  /\ id \in DOMAIN start_manifest.nodes => Survives(id)
        /\ Contains(start_manifest.files[f].node_patches, id)
              <=> Contains(saved_manifest.files[f].node_patches, id)

\* C29: right after change_schema_file has handled f, the pending patch of f
\* holds the version marker and, under each of models, seeds, snapshots and
\* analyses, exactly the elements of the new document the section diff
\* classified changed or added, the changed ones first, as copies; every
\* changed and every deleted element is unlinked, no deleted element is
\* queued, and what an added element names is not unlinked.
C29_MssaSectionPolicy ==
    \A f \in {"schema.yml"} :
        JustChanged(f) =>
            LET s == start_manifest.files[f].dfy
                n == new_files[f].dfy
                pp == saved_manifest.files[f].pp_dict
            IN  /\ "version" \in DOMAIN pp /\ pp["version"] = s["version"]
                /\ \A k \in DOMAIN mssa_keys :
                      LET key == mssa_keys[k]
                          q == Queued(pp, key)
                          due == DiffNames(key, s, n) \cap ElemNames(n, key)
                      IN  /\ NamesOf(q) = due
                          /\ Len(q) = Cardinality(due)
                          /\ key \in DOMAIN pp <=> due # {}
                          /\ \A i \in DOMAIN q :
                                Items(q[i]) = elements_by_name(DocElems(n, key))[q[i].name]
                          /\ \A i, j \in DOMAIN q :
                                (q[i].name \notin ElemNames(s, key) /\ q[j].name \in ElemNames(s, key))
                                    => j < i
                          /\ \A x \in DiffNames(key, s, n) :
                                IF x \in ElemNames(s, key) THEN Unlinked(f, key, x)
                                ELSE NotUnlinked(f, key, x)

\* the models entry m1 of schema.yml was changed and an entry for model m2
\* added: both are queued, m1 first; node m1 and its tests are removed, node
\* m2 is still saved
C29_Witness ==
    /\ JustChanged("schema.yml")
    /\ start_manifest.files["schema.yml"].tests # <<>>
    /\ "models" \in DOMAIN saved_manifest.files["schema.yml"].pp_dict
    /\ Len(saved_manifest.files["schema.yml"].pp_dict["models"]) = 2
    /\ saved_manifest.files["schema.yml"].pp_dict["models"][1].name = "m1"
    /\ saved_manifest.files["schema.yml"].pp_dict["models"][2].name = "m2"
    /\ NodeIdOfFile("m1.sql") \in DOMAIN deleted_manifest.nodes
    /\ saved_manifest.files["schema.yml"].tests = <<>>
    /\ Survives(NodeIdOfFile("m2.sql"))

\* only the macros section of schema file f differs between the saved and
\* the new document
OnlyMacrosDiffer(f) ==
    /\ f \in DOMAIN new_files
    /\ \A key \in SectionKeys \ {"macros"} :
          DiffNames(key, saved_manifest.files[f].dfy, new_files[f].dfy) = {}
    /\ DiffNames("macros", saved_manifest.files[f].dfy, new_files[f].dfy) # {}

\* what C30 says of the macros entry called x once the step is over
MacroEntryHandled(f, x) ==
    LET id == MacroId(x)
    IN  IF x \in ElemNames(saved_manifest.files[f].dfy, "macros")
        THEN /\ ~Contains(saved_manifest'.files[f].macro_patches, id)
             /\ Contains(saved_manifest.files[f].macro_patches, id) =>
                   /\ id \notin DOMAIN saved_manifest'.macros
                   /\ id \in DOMAIN deleted_manifest'.macros
                   /\ \/ saved_manifest.macros[id].file_id \in file_diff.deleted
                      \/ saved_manifest.macros[id].file_id \in ScheduledIn(project_parser_files')
        ELSE /\ \E i \in DOMAIN Queued(saved_manifest'.files[f].pp_dict, "macros") :
                    Items(saved_manifest'.files[f].pp_dict["macros"][i])
                       = elements_by_name(new_files[f].dfy["macros"])[x]
             /\ id \in DOMAIN saved_manifest.macros => id \in DOMAIN saved_manifest'.macros

\* C30: the step that handles a changed schema file whose macros section
\* alone differs does not fail; for a changed or deleted macros entry the
\* recorded macro-patch id of that name is dropped from macro_patches, the
\* macro has moved from the saved to the removed macros and its file is
\* scheduled (unless it is in the deleted bucket); an added entry is queued
\* under 'macros' in the pending patch and its macro is not removed.
C30_MacrosSectionPolicy ==
    [][\A f \in {"schema.yml"} :
          (Handles("changed_schema_files", f) /\ OnlyMacrosDiffer(f)) =>
              /\ err' = "ok"
              /\ \A x \in DiffNames("macros", saved_manifest.files[f].dfy, new_files[f].dfy) :
                    MacroEntryHandled(f, x)]_vars

\* only the exposures section of schema file f differs between the saved and
\* the new document
OnlyExposuresDiffer(f) ==
    /\ f \in DOMAIN new_files
    /\ \A key \in SectionKeys \ {"exposures"} :
          DiffNames(key, saved_manifest.files[f].dfy, new_files[f].dfy) = {}
    /\ DiffNames("exposures", saved_manifest.files[f].dfy, new_files[f].dfy) # {}

\* what C31 says of the exposures entry called x once the step is over
ExposureEntryHandled(f, x) ==
    LET ids == {id \in Range(saved_manifest.files[f].exposures) :
                   /\ id \in DOMAIN saved_manifest.exposures
                   /\ saved_manifest.exposures[id].name = x}
        pp == Queued(saved_manifest'.files[f].pp_dict, "exposures")
    IN  /\ x \in ElemNames(saved_manifest.files[f].dfy, "exposures") =>
              \A id \in ids : /\ id \notin DOMAIN saved_manifest'.exposures
                              /\ id \in DOMAIN deleted_manifest'.exposures
        /\ IF x \in ElemNames(new_files[f].dfy, "exposures")
           THEN \E i \in DOMAIN pp :
                    Items(pp[i]) = elements_by_name(new_files[f].dfy["exposures"])[x]
           ELSE \A i \in DOMAIN pp : pp[i].name # x

\* C31: the step that handles a changed schema file whose exposures section
\* alone differs does not fail (an exposure id removed earlier in the run is
\* skipped); for a changed or deleted exposures entry every recorded exposure
\* id of that name has moved from the saved to the removed exposures; an
\* added or changed entry is queued under 'exposures' in the pending patch
\* and a deleted entry is not.
C31_ExposuresSectionPolicy ==
    [][\A f \in {"schema.yml"} :
          (Handles("changed_schema_files", f) /\ OnlyExposuresDiffer(f)) =>
              /\ err' = "ok"
              /\ \A x \in DiffNames("exposures", saved_manifest.files[f].dfy,
                                    new_files[f].dfy) :
                    ExposureEntryHandled(f, x)]_vars

\* the visits of handle_schema_file_changes that the step has carried through:
\* all the visits it added to handled, but for the last one when it raised
CompletedVisits ==
    LET n == Len(handled') - (IF err' = "ok" THEN 0 ELSE 1)
    IN  IF n <= Len(handled) THEN {}
        ELSE {handled'[i] : i \in (Len(handled) + 1)..n}

\* the names of the models, seeds and snapshots elements the step has unlinked
UnlinkedTestables ==
    {v[3] : v \in {w \in CompletedVisits : /\ w[1] \in {"models", "seeds", "snapshots"}
                                           /\ w[2] \in {"changed", "deleted"}}}

\* the names of the analyses elements the step has unlinked
UnlinkedAnalyses ==
    {v[3] : v \in {w \in CompletedVisits : /\ w[1] = "analyses"
                                           /\ w[2] \in {"changed", "deleted"}}}

\* the entry of file f after the step, in whichever files map holds it
FileAfter(f) ==
    IF f \in DOMAIN saved_manifest'.files THEN saved_manifest'.files[f]
    ELSE deleted_manifest'.files[f]

AtDirectNameCall ==
    /\ pc = "walk"
    /\ func_calls # <<>>
    /\ HasName(Head(func_calls).node[1])

\* the keys of ctx, whatever they are bound to
BoundIn(c) == c.defined \cup c.falsy

\* C33: the loop step on a call f(...) whose callee is a simple name leaves
\* the references as they are when f is one of source, ref, config or when f
\* is a key of ctx; otherwise f is among the references after the step,
\* appended at the end unless it was there already. The step never fails.
C33_DirectNameCalls ==
    [][AtDirectNameCall =>
          LET f == Head(func_calls).node[1].name
          IN  /\ err' = "ok"
              /\ IF f \in standard_calls \/ f \in BoundIn(ctx)
                 THEN possible_macro_calls' = possible_macro_calls
                 ELSE possible_macro_calls' =
                         IF Contains(possible_macro_calls, f) THEN possible_macro_calls
                         ELSE Append(possible_macro_calls, f)]_vars

\* the loop of statically_extract_macro_calls is about to look at a call
\* whose callee is no simple name
AtOtherCall ==
    /\ pc = "walk"
    /\ func_calls # <<>>
    /\ ~HasName(Head(func_calls).node[1])

\* the callee of the call is an attribute of a simple name
IsAttributeCall(func_call) ==
    /\ func_call.node[1].type = "Getattr"
    /\ func_call.node[1].node[1].type = "Name"

NamespaceFetch == Call(Getattr(Name("local_utils"), "_get_utils_namespaces"), <<>>, <<>>)

\* the candidate packages statically_parse_adapter_dispatch has worked out for
\* the one call of the template
CandidatePackages ==
    statically_parse_adapter_dispatch(template[1], ctx, db_wrapper).packages

\* the value of ctx['var'](name), <<>> when the lookup raises
VarOrEmpty(name) == IF name \in DOMAIN ctx.vars THEN ctx.vars[name] ELSE <<>>

\* C35 as stated: once a template that is one adapter.dispatch call with
\* packages=local_utils._get_utils_namespaces() has been analysed, the
\* candidate packages are the list of variable local_utils_dispatch_list alone
\* when it is set and not empty, and ['local_utils'] otherwise.
C35_NamespaceFetchReplaces ==
    (DispatchesWith(NamespaceFetch) /\ pc \in {"returned", "raised"}) =>
        CandidatePackages =
            IF VarOrEmpty("local_utils_dispatch_list") # <<>>
            THEN VarOrEmpty("local_utils_dispatch_list")
            ELSE <<"local_utils">>

\* C35 amended: once such a template has been analysed, the candidate
\* packages are the list of variable local_utils_dispatch_list followed by
\* 'local_utils' when the variable is set and not empty, and ['local_utils']
\* otherwise; without a database wrapper the references returned are the
\* macro name, then 'package.macro' for each candidate in that order, then
\* the namespace-fetch call itself, which the walk meets as a call of its own.
C35_NamespaceFetchAppends ==
    (DispatchesWith(NamespaceFetch) /\ pc \in {"returned", "raised"}) =>
        LET packages == IF VarOrEmpty("local_utils_dispatch_list") # <<>>
                        THEN VarOrEmpty("local_utils_dispatch_list") \o <<"local_utils">>
                        ELSE <<"local_utils">>
        IN  /\ CandidatePackages = packages
            /\ ~db_wrapper =>
                  /\ pc = "returned"
                  /\ possible_macro_calls =
                        <<"current_timestamp">> \o
                        [i \in DOMAIN packages |-> packages[i] \o ".current_timestamp"]
                        \o <<"local_utils._get_utils_namespaces">>

\* with local_utils_dispatch_list set to ['local'] and no database wrapper the
\* call has yielded the references of packages local and local_utils
C35_Witness ==
    /\ pc = "returned"
    /\ ~db_wrapper
    /\ DispatchesWith(NamespaceFetch)
    /\ VarOrEmpty("local_utils_dispatch_list") = <<"local">>
    /\ possible_macro_calls = <<"current_timestamp", "local.current_timestamp",
                                "local_utils.current_timestamp",
                                "local_utils._get_utils_namespaces">>

\* packages=var('local_utils_dispatch_list') + ['dbt_utils']
VarAddition ==
    Add(Call(Name("var"), <<Const("local_utils_dispatch_list")>>, <<>>),
        List(<<Const("dbt_utils")>>))

\* C36 as stated: once a template that is one adapter.dispatch call with
\* packages=var('local_utils_dispatch_list') + ['dbt_utils'] has been
\* analysed, the candidate packages are the value of the variable when it is
\* set and not empty, otherwise ['dbt_utils'], followed by ['dbt_utils'].
C36_VarAdditionDefaultTwice ==
    (DispatchesWith(VarAddition) /\ pc \in {"returned", "raised"}) =>
        CandidatePackages =
            (IF VarOrEmpty("local_utils_dispatch_list") # <<>>
             THEN VarOrEmpty("local_utils_dispatch_list")
             ELSE <<"dbt_utils">>) \o <<"dbt_utils">>

\* C36 amended: once such a template has been analysed, the candidate
\* packages are the value of the variable followed by 'dbt_utils' when the
\* variable is set and not empty, and ['dbt_utils'] once otherwise; without a
\* database wrapper the references returned are the macro name, then
\* 'package.macro' for each candidate in that order, then 'var' unless ctx
\* binds it.
C36_VarAdditionDefaultOnce ==
    (DispatchesWith(VarAddition) /\ pc \in {"returned", "raised"}) =>
        LET packages == IF VarOrEmpty("local_utils_dispatch_list") # <<>>
                        THEN VarOrEmpty("local_utils_dispatch_list") \o <<"dbt_utils">>
                        ELSE <<"dbt_utils">>
        IN  /\ CandidatePackages = packages
            /\ ~db_wrapper =>
                  /\ pc = "returned"
                  /\ possible_macro_calls =
                        <<"current_timestamp">> \o
                        [i \in DOMAIN packages |-> packages[i] \o ".current_timestamp"]
                        \o (IF "var" \in BoundIn(ctx) THEN <<>> ELSE <<"var">>)

\* with the variable set to an empty list and no database wrapper the call
\* has yielded the reference of package dbt_utils once
C36_Witness ==
    /\ pc = "returned"
    /\ ~db_wrapper
    /\ DispatchesWith(VarAddition)
    /\ "local_utils_dispatch_list" \in DOMAIN ctx.vars
    /\ ctx.vars["local_utils_dispatch_list"] = <<>>
    /\ possible_macro_calls = <<"current_timestamp", "dbt_utils.current_timestamp">>

\* no entity is lost, created or held twice: per kind the saved and the
\* removed ids are disjoint, together they are the ids of the start of the
\* run, and every entity is the one the start manifest held under that kind
Conserved ==
    \A kind \in EntityKinds :
        /\ (DOMAIN saved_manifest[kind]) \cap (DOMAIN deleted_manifest[kind]) = {}
        /\ (DOMAIN saved_manifest[kind]) \cup (DOMAIN deleted_manifest[kind])
              = DOMAIN start_manifest[kind]
        /\ \A id \in DOMAIN deleted_manifest[kind] :
              deleted_manifest[kind][id] = start_manifest[kind][id]
        /\ \A id \in DOMAIN saved_manifest[kind] :
              saved_manifest[kind][id] = start_manifest[kind][id]

\* what the removed manifest holds it keeps
RemovedGrows ==
    \A kind \in EntityKinds :
        \A id \in DOMAIN deleted_manifest[kind] :
            /\ id \in DOMAIN deleted_manifest'[kind]
            /\ deleted_manifest'[kind][id] = deleted_manifest[kind][id]

\* C37: in every state of a run, for each of nodes, macros, docs, sources and
\* exposures, no id is a key of both the saved and the removed manifest, the
\* saved and the removed ids together are the saved ids of the start of the
\* run, and each entity is the one the start manifest held under the same
\* kind; no step takes an entity out of the removed manifest.
C37_EntityConservation == []Conserved /\ [][RemovedGrows]_vars

\* a run has ended with a node and an exposure moved to the removed manifest
C37_Witness ==
    /\ pc = "done"
    /\ DOMAIN deleted_manifest.nodes # {}
    /\ DOMAIN deleted_manifest.exposures # {}
    /\ DOMAIN saved_manifest.nodes # DOMAIN start_manifest.nodes

\* model file m1.sql is in the changed or deleted bucket and, in the same
\* run, the models element m1 of schema.yml is changed or deleted; nothing
\* else differs
OverlapOnM1 ==
    /\ Called
    /\ file_diff.changed_schema_files = {"schema.yml"}
    /\ file_diff.deleted_schema_files = {} /\ file_diff.added = {}
    /\ file_diff.changed \cup file_diff.deleted = {"m1.sql"}
    /\ DiffNames("models", start_manifest.files["schema.yml"].dfy,
                 new_files["schema.yml"].dfy) = {"m1"}
    /\ \A key \in SectionKeys \ {"models"} :
          DiffNames(key, start_manifest.files["schema.yml"].dfy,
                    new_files["schema.yml"].dfy) = {}

\* C38: a run in which model file m1.sql is changed or deleted and the
\* models element m1 of schema.yml is changed or deleted ends without error;
\* the model node is then in the removed manifest and no longer saved, and
\* schema.yml and, unless it was deleted, m1.sql are in the schedule returned.
C38_OverlappingCascades ==
    (OverlapOnM1 /\ pc \in {"done", "error"}) =>
        /\ pc = "done" /\ err = "ok"
        /\ NodeIdOfFile("m1.sql") \in DOMAIN deleted_manifest.nodes
        /\ NodeIdOfFile("m1.sql") \notin DOMAIN saved_manifest.nodes
        /\ "schema.yml" \in ScheduledIn(result)
        /\ "m1.sql" \in file_diff.changed => "m1.sql" \in ScheduledIn(result)
        /\ "m1.sql" \notin DOMAIN new_files => "m1.sql" \notin ScheduledIn(result)

\* the test ids a get_tests_for lookup returns for schema file f, whatever
\* the name asked for: those of the memoized pp_test_index when it is set,
\* else those of the file's tests list, from which the index would be built
IndexedTests(f) ==
    LET schema_file == saved_manifest.files[f]
        index == schema_file.pp_test_index
    IN  IF DOMAIN index # {}
        THEN UNION {Range(index[name]) : name \in DOMAIN index}
        ELSE Range(schema_file.tests)

\* C39: in every state of a run, each test id that a get_tests_for lookup
\* returns for a saved schema file is on that file's tests list and is a key
\* of the saved manifest's nodes (so that unlinking an element a second time
\* finds no test left to remove).
C39_TestIndexConsistency ==
    \A f \in {"schema.yml"} :
        (Called /\ f \in DOMAIN saved_manifest.files) =>
            \A t \in IndexedTests(f) :
                /\ Contains(saved_manifest.files[f].tests, t)
                /\ t \in DOMAIN saved_manifest.nodes

\* the items of the elements of section key in the saved (start of the run)
\* and in the new document of schema file f
SectionElements(f, key) ==
    LET s == IF f \in DOMAIN start_manifest.files THEN start_manifest.files[f].dfy
             ELSE EmptyDict
    IN  {Items(e) : e \in Range(DocElems(s, key)) \cup Range(DocElems(NewDocOf(f), key))}

\* C40: in every state of a run, every element queued under a section key in
\* the pending patch of a saved schema file is an element of that section of
\* the file's saved or new document; and once change_schema_file has handled
\* a changed macros entry, the element of that name of the new document is
\* queued under 'macros'.
C40_PendingPatchMembership ==
    \A f \in {"schema.yml", "schema2.yml"} :
        (Called /\ f \in DOMAIN saved_manifest.files) =>
            LET pp == saved_manifest.files[f].pp_dict
            IN  /\ \A key \in SectionKeys \cap DOMAIN pp :
                      \A i \in DOMAIN pp[key] : Items(pp[key][i]) \in SectionElements(f, key)
                /\ JustChanged(f) =>
                      \A x \in ElemNames(start_manifest.files[f].dfy, "macros")
                                 \cap DiffNames("macros", start_manifest.files[f].dfy,
                                                new_files[f].dfy)
                                 \cap ElemNames(new_files[f].dfy, "macros") :
                          \E i \in DOMAIN Queued(pp, "macros") :
                              Items(pp["macros"][i])
                                 = elements_by_name(new_files[f].dfy["macros"])[x]

====
